---- MODULE Spec2Model ----
(***************************************************************************)
(* AccessiClock: the ChimeScheduler of                                     *)
(* src/accessiclock/managers/chime_scheduler.py and the audio engine of    *)
(* src/accessiclock/managers/audio_manager.py and                          *)
(* src/accessiclock/backends/pygame_backend.py as a state machine.         *)
(*                                                                         *)
(* Time is the wall clock in whole seconds since 00:00:00 of day 0 (the    *)
(* floor of datetime.now()).  Caller threads run the public operations,    *)
(* loop workers run _scheduler_loop; every read of shared state by the     *)
(* loop is a step of its own, because the loop takes no lock.              *)
(***************************************************************************)
EXTENDS Integers, Sequences, FiniteSets, TLC

VARIABLES
    clock,            \* wall clock, seconds since day 0 00:00:00
    enabled,          \* self._enabled
    running,          \* self._running
    scheduler_thread, \* self._scheduler_thread: a worker id, or NoThread
    stop_event,       \* self._stop_event (a threading.Event)
    chime_intervals,  \* self._chime_intervals
    lock,             \* self._lock: the caller holding it, or Free
    pc,               \* per caller: its position
    frame,            \* per caller: "top", or "set_enabled" inside a nested call
    cop,              \* per caller: the public operation last called
    carg,             \* per caller: the argument of its set_enabled in progress
    cret,             \* per caller: what that operation returned
    joinUntil,        \* per caller: when its join(timeout) gives up
    wpc,              \* per worker: its position in _scheduler_loop
    wnext,            \* per worker: next_chime_time
    wnow,             \* per worker: now (line 310)
    wuntil,           \* per worker: when its Event.wait(timeout) times out
    wkind,            \* per worker: which of the four waits it is in
    wq,               \* per worker: chimes_to_play not yet played
    fired,            \* observation: loop play requests in the current minute
    steady,           \* observation: running since the minute began, no call since
    sig,              \* observation: what the last stop() signal met
    fnOut,            \* result of the function applied last (SpecFn)
    engine,           \* which audio engine class is in use
    initialized,      \* engine: self._initialized
    sound_files,      \* engine: self._sound_files, a Sound as its set volume
    volume_settings,  \* engine: self._volume_settings, in tenths
    master_volume,    \* engine: self._master_volume, in tenths
    channels,         \* engine: self._channels, a Channel as its number
    busy,             \* the mixer: Channel(n).get_busy() per channel number
    alock,            \* engine: self._lock: the caller holding it, or Free
    alast,            \* observation: the engine call made last
    touched,          \* observation: the volumes a setter has set
    threads,          \* per engine thread: its call and its position in it
    mock,             \* a MockAudioBackend driven beside the engine
    preferences,      \* PreferencesManager._preferences
    preferences_file, \* the content of preferences.json
    backup_file,      \* the content of preferences_backup.json
    saved,            \* observation: the preferences save_preferences wrote last
    plast,            \* observation: the PreferencesManager call made last
    chime_callbacks,  \* self._chime_callbacks: per key, TRUE for a callback
    wcb,              \* per worker: callback (line 397)
    ccb,              \* per caller: interval, success and callback in _play_chime
    cblast            \* observation: the callback invocation made last

vars == <<clock, enabled, running, scheduler_thread, stop_event, chime_intervals,
          lock, pc, frame, cop, carg, cret, joinUntil,
          wpc, wnext, wnow, wuntil, wkind, wq, fired, steady, sig, fnOut,
          engine, initialized, sound_files, volume_settings, master_volume,
          channels, busy, alock, alast, touched, threads, mock,
          preferences, preferences_file, backup_file, saved, plast,
          chime_callbacks, wcb, ccb, cblast>>

schedVars == <<enabled, running, scheduler_thread, stop_event, chime_intervals, lock>>
callerVars == <<pc, frame, cop, carg, cret, joinUntil>>
workerVars == <<wpc, wnext, wnow, wuntil, wkind, wq>>
prefsVars == <<preferences, preferences_file, backup_file, saved, plast>>
engineVars == <<engine, initialized, sound_files, volume_settings, master_volume,
                channels, busy, alock, alast, touched, threads, mock, prefsVars>>
chimeVars == <<chime_callbacks, wcb, ccb, cblast>>

----------------------------------------------------------------------------
(* Bounds of the model *)

MaxWorkers == 2
Horizon == 4
LoopHorizon == 64
ChimeHorizon == 2
MaxFired == 2

MaxThreads == 2
MaxPackKeys == 2

Callers == {"ui"}
ThreadNames == <<"t1", "t2", "t3">>
Threads == {ThreadNames[i] : i \in 1..MaxThreads}
Workers == 1..MaxWorkers

(* Program constants *)

PollSeconds == 60
DebounceSeconds == 1
CooldownSeconds == 5
JoinTimeout == 2

QUARTER_HOUR == "quarter_hour"
HALF_HOUR == "half_hour"
HOUR == "hour"
ChimeInterval == {QUARTER_HOUR, HALF_HOUR, HOUR}

TICK == "tick"
QUARTER_CHIME == "quarter_chime"
HALF_CHIME == "half_chime"
HOUR_CHIME == "hour_chime"
SPEECH == "speech"
AudioType == {TICK, HOUR_CHIME, QUARTER_CHIME, HALF_CHIME, SPEECH}

(* a volume v of the code is the integer 10 * v; a product of two volumes  *)
(* is in hundredths                                                        *)
VolumeOne == 10

None == 0 - 1
NoThread == 0
Free == "free"

----------------------------------------------------------------------------
(* datetime: an instant is a number of seconds; replace() keeps the date *)

Day(t) == t \div 86400
HourOf(t) == (t \div 3600) % 24
MinuteOf(t) == (t \div 60) % 60
SecondOf(t) == t % 60
At(h, m, s) == h * 3600 + m * 60 + s
Replace(t, h, m) == Day(t) * 86400 + At(h, m, 0)

SetMin(S) == CHOOSE x \in S : \A y \in S : x <= y

----------------------------------------------------------------------------
(* get_next_chime_time: the three per-interval rules and their minimum *)

NextQuarter(now) ==
    LET next_quarter == ((MinuteOf(now) \div 15) + 1) * 15
    IN  IF next_quarter >= 60
        THEN Replace(now, (HourOf(now) + 1) % 24, 0)
        ELSE Replace(now, HourOf(now), next_quarter)

NextHalf(now) ==
    IF MinuteOf(now) < 30
    THEN Replace(now, HourOf(now), 30)
    ELSE Replace(now, (HourOf(now) + 1) % 24, 0)

NextHour(now) == Replace(now, (HourOf(now) + 1) % 24, 0)

NextTimes(now, ivs) ==
    (IF ivs[QUARTER_HOUR] THEN {NextQuarter(now)} ELSE {})
    \cup (IF ivs[HALF_HOUR] THEN {NextHalf(now)} ELSE {})
    \cup (IF ivs[HOUR] THEN {NextHour(now)} ELSE {})

(* get_next_chime_time that does not look at self._enabled *)
GetNextChimeTime_IgnoresEnabled(now, en, ivs) ==
    IF NextTimes(now, ivs) = {} THEN None
    ELSE SetMin(NextTimes(now, ivs))

GetNextChimeTime(now, en, ivs) ==
    IF ~en THEN None
    ELSE IF NextTimes(now, ivs) = {} THEN None
    ELSE SetMin(NextTimes(now, ivs))

(* ChimesToPlay with the quarter chime on every multiple of 15 minutes *)
ChimesToPlay_QuarterOnEveryQuarter(minute, ivs) ==
    (IF minute = 0 /\ ivs[HOUR] THEN <<HOUR>> ELSE <<>>)
    \o (IF minute = 30 /\ ivs[HALF_HOUR] THEN <<HALF_HOUR>> ELSE <<>>)
    \o (IF minute % 15 = 0 /\ ivs[QUARTER_HOUR] THEN <<QUARTER_HOUR>> ELSE <<>>)

(* _check_and_play_chimes: the chimes_to_play list for a sampled minute *)
ChimesToPlay(minute, ivs) ==
    (IF minute = 0 /\ ivs[HOUR] THEN <<HOUR>> ELSE <<>>)
    \o (IF minute = 30 /\ ivs[HALF_HOUR] THEN <<HALF_HOUR>> ELSE <<>>)
    \o (IF minute \in {15, 45} /\ ivs[QUARTER_HOUR] THEN <<QUARTER_HOUR>> ELSE <<>>)

(* _play_chime: audio_type_map *)
AudioTypeOf(interval) ==
    CASE interval = QUARTER_HOUR -> QUARTER_CHIME
      [] interval = HALF_HOUR -> HALF_CHIME
      [] interval = HOUR -> HOUR_CHIME

----------------------------------------------------------------------------
(* The clock.  Time passes only inside the observed windows, and only     *)
(* while no loop worker has a step due: a worker that is scheduled fairly  *)
(* takes its steps at once, late by less than the join timeout where it    *)
(* reads the clock or wakes from a wait.                                   *)

StartTimes == {At(10, 14, 58), At(23, 44, 58), At(23, 59, 58)}
LateStart == At(23, 44, 59)
InWindow(t, H) == \E s \in StartTimes : t >= s /\ t <= s + H
Late == 0..(JoinTimeout - 1)

Alive(w) == w # NoThread /\ wpc[w] # "dead"

(* WaitOver for a plain sleep, which the event does not cut short *)
WaitOver_Sleep(w) == clock >= wuntil[w]

(* Event.wait(timeout) is over: the event is set, or the timeout ran out *)
WaitOver(w) == stop_event \/ clock >= wuntil[w]

Due(w) ==
    \/ wpc[w] \in {"check", "next", "now", "fire", "play"}
    \/ wpc[w] = "wait" /\ WaitOver(w)

(* a step of worker w may be taken d seconds late: the clock moves under a *)
(* pending step only by that step's own delay, so no step is later than  *)
(* the largest value of Late                                             *)
Delay(w) == {d \in Late : d = 0 \/ \A o \in Workers \ {w} : ~Due(o)}

NoFired == [i \in ChimeInterval |-> 0]

(* the observations that follow the clock from t to t2 *)
Advance(t2, H) ==
    /\ InWindow(t2, H)
    /\ clock' = t2
    /\ IF t2 \div 60 # clock \div 60
       THEN /\ fired' = NoFired
            /\ steady' = (running /\ enabled /\ Alive(scheduler_thread))
       ELSE UNCHANGED <<fired, steady>>

Tick(H) ==
    /\ \A w \in Workers : ~Due(w)
    /\ Advance(clock + 1, H)
    /\ UNCHANGED <<schedVars, callerVars, workerVars, sig, fnOut, engineVars, chimeVars>>

----------------------------------------------------------------------------
(* The audio engine: AudioManager (managers/audio_manager.py) and          *)
(* PygameAudioBackend (backends/pygame_backend.py), which differ in how    *)
(* they are initialized and in cleanup().                                  *)

AudioManager == "AudioManager"
PygameAudioBackend == "PygameAudioBackend"
MockAudioBackend == "MockAudioBackend"

(* channel assignments in which the three chimes share one channel *)
CHANNEL_ASSIGNMENTS_Shared(T) ==
    CASE T = TICK -> 0
      [] T = HOUR_CHIME -> 1
      [] T = QUARTER_CHIME -> 1
      [] T = HALF_CHIME -> 1
      [] T = SPEECH -> 4

CHANNEL_ASSIGNMENTS(T) ==
    CASE T = TICK -> 0
      [] T = HOUR_CHIME -> 1
      [] T = QUARTER_CHIME -> 2
      [] T = HALF_CHIME -> 3
      [] T = SPEECH -> 4

ChannelNumbers == {CHANNEL_ASSIGNMENTS(T) : T \in AudioType}

(* __init__: the initial self._volume_settings *)
DefaultVolume(T) ==
    CASE T = TICK -> 8
      [] T = SPEECH -> 9
      [] OTHER -> VolumeOne

(* a range check without the upper bound *)
ValidVolume_NoUpperBound(v) == 0 <= v

(* 0.0 <= volume <= 1.0 *)
ValidVolume(v) == 0 <= v /\ v <= VolumeOne

(* volume * self._master_volume, as passed to Sound.set_volume *)
EffectiveVolume(v, m) == v * m

(* the volumes given to the setters: below, inside and above the range *)
Volumes == {0 - 1, 0, 5, VolumeOne + 1}

(* str.lower() on the suffixes that are used *)
Lower(suffix) ==
    CASE suffix = ".WAV" -> ".wav"
      [] suffix = ".Ogg" -> ".ogg"
      [] OTHER -> suffix

SUPPORTED_FORMATS == {".wav", ".ogg", ".mp3"}

(* a format check that accepts every suffix *)
IsSupportedFormat_Any(path) == TRUE

(* _is_supported_format *)
IsSupportedFormat(path) == Lower(path.suffix) \in SUPPORTED_FORMATS

(* a path: whether the file exists, its suffix, and whether                *)
(* pygame.mixer.Sound can load it                                          *)
Paths ==
    {[exists |-> FALSE, suffix |-> ".wav", loads |-> FALSE],
     [exists |-> TRUE, suffix |-> ".txt", loads |-> TRUE],
     [exists |-> TRUE, suffix |-> "", loads |-> TRUE],
     [exists |-> TRUE, suffix |-> ".WAV", loads |-> TRUE],
     [exists |-> TRUE, suffix |-> ".Ogg", loads |-> FALSE],
     [exists |-> TRUE, suffix |-> ".mp3", loads |-> TRUE]}

(* the types whose Channel could not be created (lines 163-167) *)
MissingChannels == {{}, {TICK}, {HOUR_CHIME, SPEECH}}

NewChannels(missing) ==
    [T \in AudioType |-> IF T \in missing THEN None ELSE CHANNEL_ASSIGNMENTS(T)]

NoChannels == [T \in AudioType |-> None]

(* the MockChannel object _initialize_mixer puts in a channel slot when    *)
(* the mixer raises: its get_busy, play and stop take no self, so every    *)
(* call of them raises TypeError                                           *)
MockChannel(n) == 0 - 2 - n
MockChannels == [T \in AudioType |-> MockChannel(CHANNEL_ASSIGNMENTS(T))]

(* type T has a channel of the mixer *)
RealChannel(T) == channels[T] \in ChannelNumbers

(* the mixer raised when the AudioManager was constructed *)
MixerFailed == engine = AudioManager /\ channels = MockChannels
NoSounds == [T \in AudioType |-> None]
Silent == [n \in ChannelNumbers |-> FALSE]

ThreadIdle == [pc |-> "idle", op |-> "none", type |-> "none", volume |-> 0,
               loads |-> FALSE, at |-> 0, effective |-> 0, ret |-> "none"]

CallNone == [op |-> "none", type |-> "none", ret |-> "none", stops |-> 0, starts |-> 0]
Call(op, T, ret) == [op |-> op, type |-> T, ret |-> ret, stops |-> 0, starts |-> 0]

(* MockAudioBackend.__init__; ret is the value its last call returned *)
InitMock ==
    [initialized |-> FALSE,
     sounds |-> {},
     volumes |-> [T \in AudioType |-> VolumeOne],
     master |-> VolumeOne,
     playing |-> [T \in AudioType |-> FALSE],
     ret |-> "none"]

(* UserPreferences: of its fields, chime_enabled and                       *)
(* volume_settings["master"], in tenths                                    *)
DefaultPreferences == [chime_enabled |-> TRUE, master |-> VolumeOne]

(* UserPreferences.validate(): a volume lies in [0.0, 1.0] *)
Validate(p) == 0 <= p.master /\ p.master <= VolumeOne

(* self._preferences: None, or a UserPreferences *)
NoPreferences == [set |-> FALSE, value |-> DefaultPreferences]
Some(p) == [set |-> TRUE, value |-> p]

(* a file of the configuration directory: absent, not JSON, or the JSON    *)
(* of a UserPreferences                                                    *)
Absent == [kind |-> "absent", data |-> DefaultPreferences]
Corrupt == [kind |-> "corrupt", data |-> DefaultPreferences]
Json(p) == [kind |-> "json", data |-> p]

PCallNone ==
    [op |-> "none", key |-> "none", ret |-> "none", value |-> NoPreferences,
     main |-> "absent", saved |-> NoPreferences]

(* PreferencesManager.__init__ in an empty configuration directory *)
InitPreferences ==
    /\ preferences = NoPreferences
    /\ preferences_file = Absent
    /\ backup_file = Absent
    /\ saved = NoPreferences
    /\ plast = PCallNone

(* the engine after construction: an AudioManager has run                  *)
(* _initialize_mixer, which sets _initialized on every path, also when the *)
(* mixer raised; a PygameAudioBackend waits for initialize()               *)
InitEngine ==
    /\ engine \in {AudioManager, PygameAudioBackend}
    /\ initialized = (engine = AudioManager)
    /\ sound_files = NoSounds
    /\ volume_settings = [T \in AudioType |-> DefaultVolume(T)]
    /\ master_volume = VolumeOne
    /\ channels \in IF engine = AudioManager
                    THEN {NewChannels(missing) : missing \in MissingChannels}
                             \cup {MockChannels}
                    ELSE {NoChannels}
    /\ busy = Silent
    /\ alock = Free
    /\ alast = CallNone
    /\ touched = {}
    /\ threads = [t \in Threads |-> ThreadIdle]
    /\ mock = InitMock
    /\ InitPreferences

(* is_playing(audio_type) *)
IsPlaying(T) ==
    IF ~initialized THEN FALSE
    ELSE IF RealChannel(T) THEN busy[channels[T]] ELSE FALSE

(* get_loaded_sounds() *)
GetLoadedSounds == {T \in AudioType : sound_files[T] # None}

(* what an engine operation leaves alone outside the engine *)
outsideEngine == <<clock, schedVars, cop, carg, cret, joinUntil, workerVars,
                   fired, steady, sig, fnOut, chimeVars, threads, prefsVars>>

(* an engine operation of caller c returns.  A stop_sound() called from    *)
(* inside stop_all_sounds() or cleanup() returns into that operation,      *)
(* which then runs to its end.                                             *)
EngineReturn(c, call) ==
    /\ pc' = [pc EXCEPT ![c] = "idle"]
    /\ frame' = [frame EXCEPT ![c] = "top"]
    /\ alock' = Free
    /\ alast' = IF frame[c] = "top" THEN call ELSE Call(frame[c], "none", "None")

(* play_sound: a sound is loaded and the type has a channel whose methods  *)
(* can be called                                                           *)
CanPlay(T) == sound_files[T] # None /\ RealChannel(T)

(* the body of play_sound(audio_type) under self._lock *)
PlayedBusy(T) ==
    IF initialized /\ CanPlay(T) THEN [busy EXCEPT ![channels[T]] = TRUE] ELSE busy

(* play_sound that does not stop a busy channel first *)
PlayCall_NoStop(T) ==
    IF initialized /\ CanPlay(T)
    THEN [op |-> "play_sound", type |-> T, ret |-> "True", stops |-> 0, starts |-> 1]
    ELSE Call("play_sound", T, "False")

PlayCall(T) ==
    IF initialized /\ CanPlay(T)
    THEN [op |-> "play_sound", type |-> T, ret |-> "True",
          stops |-> IF busy[channels[T]] THEN 1 ELSE 0, starts |-> 1]
    ELSE Call("play_sound", T, "False")

(* load_sound_file(audio_type, file_path) *)
LoadSoundFileOp(c, T, path) ==
    /\ pc[c] = "idle"
    /\ LET checked == initialized /\ path.exists /\ IsSupportedFormat(path)
           \* pygame.mixer.Sound raises when the mixer is not initialized
           ok == checked /\ path.loads /\ ~MixerFailed
       IN  /\ checked => alock = Free
           /\ sound_files' =
                  IF ok
                  THEN [sound_files EXCEPT
                          ![T] = EffectiveVolume(volume_settings[T], master_volume)]
                  ELSE sound_files
           /\ EngineReturn(c, Call("load_sound_file", T, IF ok THEN "True" ELSE "False"))
    /\ UNCHANGED <<touched, engine, initialized, volume_settings, master_volume, channels, busy>>
    /\ UNCHANGED outsideEngine

(* each operation of the backend contract is also the call made on the    *)
(* engine alone, the MockAudioBackend left as it is                        *)
LoadSoundFile(c, T, path) == LoadSoundFileOp(c, T, path) /\ UNCHANGED mock

(* play_sound(audio_type) *)
PlaySoundOp(c, T) ==
    /\ pc[c] = "idle"
    /\ initialized => alock = Free
    /\ busy' = PlayedBusy(T)
    /\ EngineReturn(c, PlayCall(T))
    /\ UNCHANGED <<touched, engine, initialized, sound_files, volume_settings, master_volume,
                   channels>>
    /\ UNCHANGED outsideEngine

PlaySound(c, T) == PlaySoundOp(c, T) /\ UNCHANGED mock

(* stop_sound(audio_type); from inside stop_all_sounds() or cleanup() it   *)
(* is called for the first AudioType                                       *)
StopSoundOp(c, T) ==
    /\ pc[c] \in {"idle", "stop_sound"}
    /\ pc[c] = "stop_sound" => T = TICK
    /\ initialized => alock = Free
    /\ LET stopping == initialized /\ RealChannel(T) /\ busy[channels[T]]
           \* get_busy() of a MockChannel raises; the handler returns False
           raised == initialized /\ channels[T] # None /\ ~RealChannel(T)
       IN  /\ busy' = IF stopping THEN [busy EXCEPT ![channels[T]] = FALSE] ELSE busy
           /\ EngineReturn(c, [op |-> "stop_sound", type |-> T,
                               ret |-> IF initialized /\ ~raised THEN "True" ELSE "False",
                               stops |-> IF stopping THEN 1 ELSE 0, starts |-> 0])
    /\ UNCHANGED <<touched, engine, initialized, sound_files, volume_settings, master_volume,
                   channels>>
    /\ UNCHANGED outsideEngine

StopSound(c, T) == StopSoundOp(c, T) /\ UNCHANGED mock

(* AudioManager.stop_all_sounds(): takes self._lock and, holding it,       *)
(* calls stop_sound() *)
StopAllSounds(c) ==
    /\ pc[c] = "idle"
    /\ engine = AudioManager
    /\ IF ~initialized
       THEN /\ EngineReturn(c, Call("stop_all_sounds", "none", "None"))
       ELSE /\ alock = Free
            /\ alock' = c
            /\ pc' = [pc EXCEPT ![c] = "stop_sound"]
            /\ frame' = [frame EXCEPT ![c] = "stop_all_sounds"]
            /\ alast' = Call("stop_all_sounds", "none", "pending")
    /\ UNCHANGED <<touched, engine, initialized, sound_files, volume_settings, master_volume,
                   channels, busy>>
    /\ UNCHANGED <<outsideEngine, mock>>

(* set_volume(audio_type, volume) *)
SetVolumeOp(c, T, volume) ==
    /\ pc[c] = "idle"
    /\ ValidVolume(volume) => alock = Free
    /\ IF ValidVolume(volume)
       THEN /\ volume_settings' = [volume_settings EXCEPT ![T] = volume]
            /\ sound_files' =
                   IF sound_files[T] # None
                   THEN [sound_files EXCEPT ![T] = EffectiveVolume(volume, master_volume)]
                   ELSE sound_files
       ELSE UNCHANGED <<volume_settings, sound_files>>
    /\ touched' = IF ValidVolume(volume) THEN touched \cup {T} ELSE touched
    /\ EngineReturn(c, Call("set_volume", T, IF ValidVolume(volume) THEN "True" ELSE "False"))
    /\ UNCHANGED <<engine, initialized, master_volume, channels, busy>>
    /\ UNCHANGED outsideEngine

SetVolume(c, T, volume) == SetVolumeOp(c, T, volume) /\ UNCHANGED mock

(* set_master_volume(volume) *)
SetMasterVolumeOp(c, volume) ==
    /\ pc[c] = "idle"
    /\ ValidVolume(volume) => alock = Free
    /\ IF ValidVolume(volume)
       THEN /\ master_volume' = volume
            /\ sound_files' =
                   [T \in AudioType |->
                      IF sound_files[T] # None
                      THEN EffectiveVolume(volume_settings[T], volume)
                      ELSE sound_files[T]]
       ELSE UNCHANGED <<master_volume, sound_files>>
    /\ touched' = IF ValidVolume(volume) THEN touched \cup {"master"} ELSE touched
    /\ EngineReturn(c, Call("set_master_volume", "none",
                            IF ValidVolume(volume) THEN "True" ELSE "False"))
    /\ UNCHANGED <<engine, initialized, volume_settings, channels, busy>>
    /\ UNCHANGED outsideEngine

(* set_master_volume that leaves the loaded sounds as they are *)
SetMasterVolume_NoApply(c, volume) ==
    /\ pc[c] = "idle"
    /\ ValidVolume(volume) => alock = Free
    /\ master_volume' = IF ValidVolume(volume) THEN volume ELSE master_volume
    /\ touched' = IF ValidVolume(volume) THEN touched \cup {"master"} ELSE touched
    /\ EngineReturn(c, Call("set_master_volume", "none",
                            IF ValidVolume(volume) THEN "True" ELSE "False"))
    /\ UNCHANGED <<engine, initialized, sound_files, volume_settings, channels, busy>>
    /\ UNCHANGED <<outsideEngine, mock>>

SetMasterVolume(c, volume) == SetMasterVolumeOp(c, volume) /\ UNCHANGED mock

(* cleanup(): AudioManager.cleanup() calls stop_all_sounds(), which takes *)
(* self._lock and calls stop_sound(); PygameAudioBackend.cleanup() takes   *)
(* self._lock itself and calls stop_sound().  stop_sound() returns at once *)
(* when the engine is not initialized, and takes self._lock when it is.    *)
CleanupOp(c) ==
    /\ pc[c] = "idle"
    /\ alock = Free
    /\ IF initialized
       THEN /\ alock' = c
            /\ pc' = [pc EXCEPT ![c] = "stop_sound"]
            /\ frame' = [frame EXCEPT ![c] = "cleanup"]
            /\ alast' = Call("cleanup", "none", "pending")
            /\ UNCHANGED <<initialized, sound_files, channels, busy>>
       ELSE /\ sound_files' = NoSounds
            /\ channels' = NoChannels
            /\ busy' = Silent
            /\ initialized' = FALSE
            /\ EngineReturn(c, Call("cleanup", "none", "None"))
    /\ UNCHANGED <<touched, engine, volume_settings, master_volume>>
    /\ UNCHANGED outsideEngine

Cleanup(c) == CleanupOp(c) /\ UNCHANGED mock

(* PygameAudioBackend.initialize(): the channels are created, or the mixer *)
(* raises and the backend is left not initialized                          *)
InitializeOp(c, ok) ==
    /\ pc[c] = "idle"
    /\ engine = PygameAudioBackend
    /\ IF ok
       THEN /\ \E missing \in MissingChannels : channels' = NewChannels(missing)
            /\ initialized' = TRUE
       ELSE /\ initialized' = FALSE
            /\ UNCHANGED channels
    /\ EngineReturn(c, Call("initialize", "none", IF ok THEN "True" ELSE "False"))
    /\ UNCHANGED <<touched, engine, sound_files, volume_settings, master_volume, busy>>
    /\ UNCHANGED outsideEngine

Initialize(c, ok) == InitializeOp(c, ok) /\ UNCHANGED mock

(* MockAudioBackend (interfaces/audio_interface.py): each method as a     *)
(* function of the mock's fields                                           *)
MockInitialize(m) == [m EXCEPT !.initialized = TRUE, !.ret = "True"]

MockCleanup(m) ==
    [m EXCEPT !.initialized = FALSE, !.sounds = {},
              !.playing = [T \in AudioType |-> FALSE], !.ret = "None"]

MockLoadSoundFile(m, T, path) ==
    IF path.exists /\ Lower(path.suffix) \in {".wav", ".ogg", ".mp3"}
    THEN [m EXCEPT !.sounds = @ \cup {T}, !.ret = "True"]
    ELSE [m EXCEPT !.ret = "False"]

MockPlaySound(m, T) ==
    IF T \in m.sounds
    THEN [m EXCEPT !.playing[T] = TRUE, !.ret = "True"]
    ELSE [m EXCEPT !.ret = "False"]

MockStopSound(m, T) == [m EXCEPT !.playing[T] = FALSE, !.ret = "True"]

MockSetVolume(m, T, volume) ==
    IF 0 <= volume /\ volume <= VolumeOne
    THEN [m EXCEPT !.volumes[T] = volume, !.ret = "True"]
    ELSE [m EXCEPT !.ret = "False"]

MockSetMasterVolume(m, volume) ==
    IF 0 <= volume /\ volume <= VolumeOne
    THEN [m EXCEPT !.master = volume, !.ret = "True"]
    ELSE [m EXCEPT !.ret = "False"]

(* one call made on a PygameAudioBackend and on a MockAudioBackend *)
BothInitialize(c, ok) == InitializeOp(c, ok) /\ mock' = MockInitialize(mock)

BothLoadSoundFile(c, T, path) ==
    LoadSoundFileOp(c, T, path) /\ mock' = MockLoadSoundFile(mock, T, path)

BothPlaySound(c, T) == PlaySoundOp(c, T) /\ mock' = MockPlaySound(mock, T)

BothStopSound(c, T) ==
    /\ pc[c] = "idle"
    /\ StopSoundOp(c, T)
    /\ mock' = MockStopSound(mock, T)

BothSetVolume(c, T, volume) ==
    SetVolumeOp(c, T, volume) /\ mock' = MockSetVolume(mock, T, volume)

BothSetMasterVolume(c, volume) ==
    SetMasterVolumeOp(c, volume) /\ mock' = MockSetMasterVolume(mock, volume)

BothCleanup(c) == CleanupOp(c) /\ mock' = MockCleanup(mock)

(* self._volume_settings.get(audio_type, 1.0) *)
VolumeSetting(T) == IF T \in DOMAIN volume_settings THEN volume_settings[T] ELSE VolumeOne

(* get_volume that returns the volume applied to the type's sound *)
GetVolume_Effective(c, T) ==
    /\ fnOut' = [op |-> "get_volume", type |-> T,
                 value |-> EffectiveVolume(VolumeSetting(T), master_volume)]
    /\ UNCHANGED <<clock, schedVars, callerVars, workerVars, fired, steady, sig,
                   engineVars, chimeVars>>

(* get_volume(audio_type) *)
GetVolume(c, T) ==
    /\ fnOut' = [op |-> "get_volume", type |-> T, value |-> VolumeSetting(T)]
    /\ UNCHANGED <<clock, schedVars, callerVars, workerVars, fired, steady, sig,
                   engineVars, chimeVars>>

(* get_master_volume() *)
GetMasterVolume(c) ==
    /\ fnOut' = [op |-> "get_master_volume", type |-> "none", value |-> master_volume]
    /\ UNCHANGED <<clock, schedVars, callerVars, workerVars, fired, steady, sig,
                   engineVars, chimeVars>>

(* validate_audio_file without the check that the file exists *)
ValidateAudioFile_NoExists(c, path) ==
    /\ \E available \in BOOLEAN :
          /\ MixerFailed => available
          /\ fnOut' = [op |-> "validate_audio_file", impl |-> engine, path |-> path,
                       value |-> /\ IsSupportedFormat(path)
                                 /\ IF engine = AudioManager
                                    THEN path.loads /\ ~MixerFailed
                                    ELSE available => path.loads]
    /\ UNCHANGED <<clock, schedVars, callerVars, workerVars, fired, steady, sig,
                   engineVars, chimeVars>>

(* validate_audio_file(file_path) of AudioManager and PygameAudioBackend:  *)
(* the file exists, its format is supported and a trial                    *)
(* pygame.mixer.Sound(file) does not raise; the backend skips the trial    *)
(* when pygame is not available                                            *)
ValidateAudioFile(c, path) ==
    /\ \E available \in BOOLEAN :
          /\ MixerFailed => available
          /\ fnOut' = [op |-> "validate_audio_file", impl |-> engine, path |-> path,
                       value |-> /\ path.exists
                                 /\ IsSupportedFormat(path)
                                 /\ IF engine = AudioManager
                                    THEN path.loads /\ ~MixerFailed
                                    ELSE available => path.loads]
    /\ UNCHANGED <<clock, schedVars, callerVars, workerVars, fired, steady, sig,
                   engineVars, chimeVars>>

(* MockAudioBackend.validate_audio_file(file_path): the suffix only *)
MockValidateAudioFile(c, path) ==
    /\ fnOut' = [op |-> "validate_audio_file", impl |-> MockAudioBackend, path |-> path,
                 value |-> Lower(path.suffix) \in {".wav", ".ogg", ".mp3"}]
    /\ UNCHANGED <<clock, schedVars, callerVars, workerVars, fired, steady, sig,
                   engineVars, chimeVars>>

(* load_sound_pack: type_mapping, the slot names of a sound pack *)
type_mapping ==
    [key \in {"tick_sound", "hour_chime", "quarter_chime", "half_chime"} |->
        CASE key = "tick_sound" -> TICK
          [] key = "hour_chime" -> HOUR_CHIME
          [] key = "quarter_chime" -> QUARTER_CHIME
          [] key = "half_chime" -> HALF_CHIME]

(* the entries a sound pack may hold for a key: an empty string, a file    *)
(* that loads, a file that does not decode                                 *)
PackEntries ==
    {[empty |-> TRUE, path |-> [exists |-> FALSE, suffix |-> "", loads |-> FALSE]],
     [empty |-> FALSE, path |-> [exists |-> TRUE, suffix |-> ".WAV", loads |-> TRUE]],
     [empty |-> FALSE, path |-> [exists |-> TRUE, suffix |-> ".Ogg", loads |-> FALSE]]}

(* the sound packs: dictionaries of up to MaxPackKeys keys, taken from the *)
(* slot names and a key that is no slot name                               *)
PackKeys == DOMAIN type_mapping \cup {"alarm_sound"}
Packs ==
    UNION {[keys -> PackEntries] :
             keys \in {K \in SUBSET PackKeys : Cardinality(K) <= MaxPackKeys}}

(* load_sound_pack that does not skip empty paths *)
PackSlots_EmptyPaths(pack) == {key \in DOMAIN pack : key \in DOMAIN type_mapping}

(* the keys of the pack load_sound_pack passes to load_sound_file *)
PackSlots(pack) ==
    {key \in DOMAIN pack : key \in DOMAIN type_mapping /\ ~pack[key].empty}

(* load_sound_file(audio_type, path) returns True *)
Loads(path) ==
    initialized /\ path.exists /\ IsSupportedFormat(path) /\ path.loads /\ ~MixerFailed

(* load_sound_pack(sound_pack): one load_sound_file per slot of the pack,  *)
(* each result recorded under the slot's type                              *)
LoadSoundPack(c, pack) ==
    /\ pc[c] = "idle"
    /\ alock = Free
    /\ LET slots == PackSlots(pack)
           key(T) == CHOOSE k \in slots : type_mapping[k] = T
           types == {type_mapping[k] : k \in slots}
       IN  /\ sound_files' =
                 [T \in AudioType |->
                    IF T \in types /\ Loads(pack[key(T)].path)
                    THEN EffectiveVolume(volume_settings[T], master_volume)
                    ELSE sound_files[T]]
           /\ fnOut' = [op |-> "load_sound_pack", pack |-> pack,
                        results |-> [T \in types |-> Loads(pack[key(T)].path)]]
    /\ EngineReturn(c, Call("load_sound_pack", "none", "None"))
    /\ UNCHANGED <<touched, engine, initialized, volume_settings, master_volume, channels,
                   busy, threads, mock, prefsVars>>
    /\ UNCHANGED <<clock, schedVars, cop, carg, cret, joinUntil, workerVars, fired, steady,
                   sig, chimeVars>>

(* the calls play_sound and stop_sound make on the Channel, any of which  *)
(* may raise pygame.error                                                  *)
ChannelCalls == {"get_busy", "stop", "play"}

(* the channel of T after a call of Channel.stop() that raised: stopped or *)
(* still playing                                                           *)
AfterStop(T, at) ==
    IF busy[channels[T]] /\ at # "get_busy"
    THEN IF at = "play"
         THEN {[busy EXCEPT ![channels[T]] = FALSE]}
         ELSE {busy, [busy EXCEPT ![channels[T]] = FALSE]}
    ELSE {busy}

(* a play_sound whose exception leaves self._lock held *)
PlaySoundError_KeepsLock(c, T, at) ==
    /\ pc[c] = "idle"
    /\ initialized /\ alock = Free
    /\ CanPlay(T)
    /\ at = "stop" => busy[channels[T]]
    /\ busy' \in AfterStop(T, at)
    /\ alock' = c
    /\ alast' = [op |-> "play_sound", type |-> T, ret |-> "False",
                 stops |-> IF busy' # busy THEN 1 ELSE 0, starts |-> 0]
    /\ UNCHANGED <<pc, frame, touched, engine, initialized, sound_files, volume_settings,
                   master_volume, channels>>
    /\ UNCHANGED <<outsideEngine, mock>>

(* play_sound(audio_type) in which the channel call `at` raises: the with  *)
(* block releases self._lock and the except branch returns False           *)
PlaySoundError(c, T, at) ==
    /\ pc[c] = "idle"
    /\ initialized /\ alock = Free
    /\ CanPlay(T)
    /\ at = "stop" => busy[channels[T]]
    /\ busy' \in AfterStop(T, at)
    /\ EngineReturn(c, [op |-> "play_sound", type |-> T, ret |-> "False",
                        stops |-> IF busy' # busy THEN 1 ELSE 0, starts |-> 0])
    /\ UNCHANGED <<touched, engine, initialized, sound_files, volume_settings, master_volume,
                   channels>>
    /\ UNCHANGED <<outsideEngine, mock>>

(* stop_sound(audio_type) in which the channel call `at` raises *)
StopSoundError(c, T, at) ==
    /\ pc[c] = "idle"
    /\ initialized /\ alock = Free
    /\ RealChannel(T)
    /\ at \in {"get_busy", "stop"}
    /\ at = "stop" => busy[channels[T]]
    /\ busy' \in AfterStop(T, at)
    /\ EngineReturn(c, [op |-> "stop_sound", type |-> T, ret |-> "False",
                        stops |-> IF busy' # busy THEN 1 ELSE 0, starts |-> 0])
    /\ UNCHANGED <<touched, engine, initialized, sound_files, volume_settings, master_volume,
                   channels>>
    /\ UNCHANGED <<outsideEngine, mock>>

(* the mixer: the sound on channel n plays out *)
ChannelFinish(n) ==
    /\ busy[n]
    /\ busy' = [busy EXCEPT ![n] = FALSE]
    /\ UNCHANGED <<touched, engine, initialized, sound_files, volume_settings, master_volume,
                   channels, alock, alast, pc, frame>>
    /\ UNCHANGED <<outsideEngine, mock>>

----------------------------------------------------------------------------
(* The volume setters and load_sound_file, statement by statement, as      *)
(* several threads run them on one AudioManager.  A thread's record holds  *)
(* its call, its arguments, its locals and its position.                   *)

ThreadTypes == {TICK, HOUR_CHIME}
ThreadVolumes == {0 - 1, 5, 7}

(* the order in which set_master_volume walks self._sound_files *)
SoundOrder == <<TICK, QUARTER_CHIME, HALF_CHIME, HOUR_CHIME, SPEECH>>

(* the statements inside `with self._lock` *)
Critical == {"locked", "read", "apply", "release"}

outsideThreads == <<clock, schedVars, callerVars, workerVars, fired, steady, sig, fnOut,
                    chimeVars, engine, initialized, channels, busy, alast, mock,
                    prefsVars>>

ThreadAt(t, fields) == [threads EXCEPT ![t] = fields]
(* the call returns ret to its caller and the thread is idle again *)
ThreadReturned(t, ret) == ThreadAt(t, ThreadIdle)

(* set_volume(audio_type, volume) is called: the range check *)
ThreadSetVolume(t, T, volume) ==
    /\ threads[t].pc = "idle"
    /\ threads' =
          IF ValidVolume(volume)
          THEN ThreadAt(t, [ThreadIdle EXCEPT !.pc = "acquire", !.op = "set_volume",
                                              !.type = T, !.volume = volume])
          ELSE ThreadReturned(t, "False")
    /\ UNCHANGED <<sound_files, volume_settings, master_volume, alock, touched>>
    /\ UNCHANGED outsideThreads

(* set_master_volume(volume) is called: the range check *)
ThreadSetMasterVolume(t, volume) ==
    /\ threads[t].pc = "idle"
    /\ threads' =
          IF ValidVolume(volume)
          THEN ThreadAt(t, [ThreadIdle EXCEPT !.pc = "acquire", !.op = "set_master_volume",
                                              !.volume = volume])
          ELSE ThreadReturned(t, "False")
    /\ UNCHANGED <<sound_files, volume_settings, master_volume, alock, touched>>
    /\ UNCHANGED outsideThreads

(* load_sound_file(audio_type, file_path) is called: the checks made       *)
(* before the lock is taken                                                *)
ThreadLoadSoundFile(t, T, path) ==
    /\ threads[t].pc = "idle"
    /\ threads' =
          IF initialized /\ path.exists /\ IsSupportedFormat(path)
          THEN ThreadAt(t, [ThreadIdle EXCEPT !.pc = "acquire", !.op = "load_sound_file",
                                              !.type = T, !.loads = path.loads])
          ELSE ThreadReturned(t, "False")
    /\ UNCHANGED <<sound_files, volume_settings, master_volume, alock, touched>>
    /\ UNCHANGED outsideThreads

(* `with self._lock` that does not wait for the lock *)
ThreadAcquire_NoWait(t) ==
    /\ threads[t].pc = "acquire"
    /\ alock' = t
    /\ threads' = ThreadAt(t, [threads[t] EXCEPT !.pc = "locked"])
    /\ UNCHANGED <<sound_files, volume_settings, master_volume, touched>>
    /\ UNCHANGED outsideThreads

(* `with self._lock`: the thread waits until the lock is free *)
ThreadAcquire(t) ==
    /\ threads[t].pc = "acquire"
    /\ alock = Free
    /\ alock' = t
    /\ threads' = ThreadAt(t, [threads[t] EXCEPT !.pc = "locked"])
    /\ UNCHANGED <<sound_files, volume_settings, master_volume, touched>>
    /\ UNCHANGED outsideThreads

(* the first statement under the lock: set_volume stores the type's        *)
(* volume, set_master_volume stores the master volume, load_sound_file     *)
(* decodes the file, which raises if the file is corrupt                   *)
ThreadStore(t) ==
    /\ threads[t].pc = "locked"
    /\ LET th == threads[t]
       IN  CASE th.op = "set_volume" ->
                 /\ volume_settings' = [volume_settings EXCEPT ![th.type] = th.volume]
                 /\ touched' = touched \cup {th.type}
                 /\ threads' = ThreadAt(t, [th EXCEPT !.pc = "read"])
                 /\ UNCHANGED master_volume
             [] th.op = "set_master_volume" ->
                 /\ master_volume' = th.volume
                 /\ touched' = touched \cup {"master"}
                 /\ threads' = ThreadAt(t, [th EXCEPT !.pc = "read", !.at = 1])
                 /\ UNCHANGED volume_settings
             [] th.op = "load_sound_file" ->
                 /\ threads' =
                       IF th.loads /\ ~MixerFailed
                       THEN ThreadAt(t, [th EXCEPT !.pc = "read"])
                       ELSE ThreadAt(t, [th EXCEPT !.pc = "release", !.ret = "False"])
                 /\ UNCHANGED <<volume_settings, master_volume, touched>>
    /\ UNCHANGED <<sound_files, alock>>
    /\ UNCHANGED outsideThreads

(* the thread reads the pair of volumes and composes the effective volume: *)
(* set_volume of its own argument and the master volume, if a sound is     *)
(* loaded; set_master_volume for the next loaded sound; load_sound_file    *)
(* for the sound it decoded                                                *)
ThreadRead(t) ==
    /\ threads[t].pc = "read"
    /\ LET th == threads[t]
           rest == {i \in th.at..Len(SoundOrder) : i > 0 /\ sound_files[SoundOrder[i]] # None}
           i == CHOOSE j \in rest : \A k \in rest : j <= k
       IN  threads' =
             CASE th.op = "set_volume" ->
                   IF sound_files[th.type] # None
                   THEN ThreadAt(t, [th EXCEPT !.pc = "apply",
                                      !.effective = EffectiveVolume(th.volume, master_volume)])
                   ELSE ThreadAt(t, [th EXCEPT !.pc = "release", !.ret = "True"])
               [] th.op = "set_master_volume" ->
                   IF rest # {}
                   THEN ThreadAt(t, [th EXCEPT !.pc = "apply", !.at = i,
                                      !.type = SoundOrder[i],
                                      !.effective = EffectiveVolume(
                                           volume_settings[SoundOrder[i]], master_volume)])
                   ELSE ThreadAt(t, [th EXCEPT !.pc = "release", !.ret = "True"])
               [] th.op = "load_sound_file" ->
                   ThreadAt(t, [th EXCEPT !.pc = "apply",
                                 !.effective = EffectiveVolume(
                                      volume_settings[th.type], master_volume)])
    /\ UNCHANGED <<sound_files, volume_settings, master_volume, alock, touched>>
    /\ UNCHANGED outsideThreads

(* the thread applies the volume it composed: sound.set_volume(); in       *)
(* load_sound_file the sound is then stored                                *)
ThreadApply(t) ==
    /\ threads[t].pc = "apply"
    /\ LET th == threads[t]
       IN  /\ sound_files' = [sound_files EXCEPT ![th.type] = th.effective]
           /\ threads' =
                 IF th.op = "set_master_volume"
                 THEN ThreadAt(t, [th EXCEPT !.pc = "read", !.at = th.at + 1])
                 ELSE ThreadAt(t, [th EXCEPT !.pc = "release", !.ret = "True"])
    /\ UNCHANGED <<volume_settings, master_volume, alock, touched>>
    /\ UNCHANGED outsideThreads

(* the end of the `with` block: the lock is released and the call returns *)
ThreadRelease(t) ==
    /\ threads[t].pc = "release"
    /\ alock' = Free
    /\ threads' = ThreadReturned(t, threads[t].ret)
    /\ UNCHANGED <<sound_files, volume_settings, master_volume, touched>>
    /\ UNCHANGED outsideThreads

----------------------------------------------------------------------------
(* Construction: ChimeScheduler.__init__ *)

CbNone == [interval |-> "none", by |-> "none", registered |-> FALSE]

SigNone == [w |-> NoThread, kind |-> "none", played |-> FALSE, res |-> "none",
            restart |-> FALSE]
FnNone == [op |-> "none", next |-> None, chimes |-> <<>>]

InitSchedulerWith(en, ivs) ==
    /\ enabled = en
    /\ running = FALSE
    /\ scheduler_thread = NoThread
    /\ stop_event = FALSE
    /\ chime_intervals = ivs
    /\ lock = Free
    /\ pc = [c \in Callers |-> "idle"]
    /\ frame = [c \in Callers |-> "top"]
    /\ cop = [c \in Callers |-> "none"]
    /\ carg = [c \in Callers |-> FALSE]
    /\ cret = [c \in Callers |-> "none"]
    /\ joinUntil = [c \in Callers |-> 0]
    /\ wpc = [w \in Workers |-> "dead"]
    /\ wnext = [w \in Workers |-> None]
    /\ wnow = [w \in Workers |-> 0]
    /\ wuntil = [w \in Workers |-> 0]
    /\ wkind = [w \in Workers |-> "none"]
    /\ wq = [w \in Workers |-> <<>>]
    /\ fired = NoFired
    /\ steady = FALSE
    /\ sig = SigNone
    /\ fnOut = FnNone
    /\ chime_callbacks = [i \in ChimeInterval |-> FALSE]
    /\ wcb = [w \in Workers |-> FALSE]
    /\ ccb = [c \in Callers |-> "none"]
    /\ cblast = CbNone

InitScheduler == InitSchedulerWith(TRUE, [i \in ChimeInterval |-> TRUE])

(* the scheduler is given an AudioManager with all its channels *)
InitAudioManager ==
    /\ InitEngine
    /\ engine = AudioManager
    /\ channels = NewChannels({})

Init ==
    /\ clock = LateStart
    /\ InitScheduler
    /\ InitAudioManager

----------------------------------------------------------------------------
(* Caller threads.  A public operation is called and runs under           *)
(* self._lock as one step once the lock is free; a caller that finds the   *)
(* lock taken stays where it is.  pc "start" and "stop" are the calls that *)
(* set_enabled makes while it holds the lock itself.                       *)

(* The end of start() or stop(): back to the caller of the operation, or,  *)
(* inside set_enabled, on to the rest of set_enabled (lines 163-168).      *)
Return(c, op, val) ==
    /\ carg' = [carg EXCEPT ![c] = FALSE]
    /\ lock' = Free
    /\ CASE frame[c] = "top" ->
              /\ pc' = [pc EXCEPT ![c] = "idle"]
              /\ frame' = [frame EXCEPT ![c] = "top"]
              /\ cop' = [cop EXCEPT ![c] = op]
              /\ cret' = [cret EXCEPT ![c] = val]
              /\ enabled' = enabled
         [] frame[c] = "cleanup" ->
              \* cleanup(), line 441: on to the clearing of the callbacks
              /\ pc' = [pc EXCEPT ![c] = "clear"]
              /\ frame' = frame
              /\ cop' = [cop EXCEPT ![c] = "cleanup"]
              /\ cret' = [cret EXCEPT ![c] = "pending"]
              /\ enabled' = enabled
         [] OTHER ->
              /\ pc' = [pc EXCEPT ![c] = "idle"]
              /\ frame' = [frame EXCEPT ![c] = "top"]
              /\ cop' = [cop EXCEPT ![c] = "set_enabled"]
              /\ cret' = [cret EXCEPT ![c] = "None"]
              /\ enabled' = carg[c]

FreeWorker == SetMin({w \in Workers : wpc[w] = "dead"})

(* Spawn without self._stop_event.clear() *)
Spawn_NoClear ==
    /\ \E w \in Workers : wpc[w] = "dead"
    /\ stop_event' = stop_event
    /\ scheduler_thread' = FreeWorker
    /\ wpc' = [wpc EXCEPT ![FreeWorker] = "check"]
    /\ running' = TRUE
    /\ sig' = [SigNone EXCEPT !.restart = sig.res \in {"joined", "timeout", "nojoin"}]

(* start(), lines 89-100: clear the event, start the thread *)
Spawn ==
    /\ \E w \in Workers : wpc[w] = "dead"
    /\ stop_event' = FALSE
    /\ scheduler_thread' = FreeWorker
    /\ wpc' = [wpc EXCEPT ![FreeWorker] = "check"]
    /\ running' = TRUE
    /\ sig' = [SigNone EXCEPT !.restart = sig.res \in {"joined", "timeout", "nojoin"}]

(* Start without the test of self._running *)
Start_NoRunningCheck(c) ==
    /\ pc[c] \in {"idle", "start"}
    /\ lock = Free
    /\ steady' = FALSE
    /\ UNCHANGED <<clock, chime_intervals, joinUntil, wnext, wnow, wuntil, wkind,
                   wq, fired, fnOut, engineVars, chimeVars>>
    /\ IF ~enabled
       THEN /\ Return(c, "start", "False")
            /\ UNCHANGED <<running, scheduler_thread, stop_event, wpc, sig>>
       ELSE /\ Spawn
            /\ Return(c, "start", "True")

(* start(), lines 80-102 *)
Start(c) ==
    /\ pc[c] \in {"idle", "start"}
    /\ lock = Free
    /\ steady' = FALSE
    /\ UNCHANGED <<clock, chime_intervals, joinUntil, wnext, wnow, wuntil, wkind,
                   wq, fired, fnOut, engineVars, chimeVars>>
    /\ IF running
       THEN /\ Return(c, "start", "True")
            /\ UNCHANGED <<running, scheduler_thread, stop_event, wpc, sig>>
       ELSE IF ~enabled
       THEN /\ Return(c, "start", "False")
            /\ UNCHANGED <<running, scheduler_thread, stop_event, wpc, sig>>
       ELSE /\ Spawn
            /\ Return(c, "start", "True")

(* stop(), lines 121-131: up to the join *)
Stop(c) ==
    /\ pc[c] \in {"idle", "stop"}
    /\ lock = Free
    /\ steady' = FALSE
    /\ UNCHANGED <<clock, chime_intervals, workerVars, fired, fnOut, engineVars, chimeVars>>
    /\ IF ~running
       THEN /\ Return(c, "stop", "True")
            /\ sig' = [SigNone EXCEPT !.res = "noop"]
            /\ UNCHANGED <<running, scheduler_thread, stop_event, joinUntil>>
       ELSE /\ stop_event' = TRUE
            /\ IF Alive(scheduler_thread)
               THEN /\ lock' = c
                    /\ pc' = [pc EXCEPT ![c] = "join"]
                    /\ cop' = [cop EXCEPT ![c] = IF frame[c] = "top" THEN "stop" ELSE @]
                    /\ cret' = [cret EXCEPT ![c] = "pending"]
                    /\ joinUntil' = [joinUntil EXCEPT ![c] = clock + JoinTimeout]
                    /\ sig' = [w |-> scheduler_thread,
                               kind |-> wkind[scheduler_thread],
                               played |-> FALSE, res |-> "pending",
                               restart |-> FALSE]
                    /\ UNCHANGED <<running, scheduler_thread, enabled, frame, carg>>
               ELSE /\ running' = FALSE
                    /\ scheduler_thread' = NoThread
                    /\ sig' = [SigNone EXCEPT !.res = "nojoin"]
                    /\ Return(c, "stop", "True")
                    /\ UNCHANGED joinUntil

(* stop(), lines 131-139: join() returned because the thread ended *)
StopJoined(c) ==
    /\ pc[c] = "join"
    /\ ~Alive(scheduler_thread)
    /\ running' = FALSE
    /\ scheduler_thread' = NoThread
    /\ joinUntil' = [joinUntil EXCEPT ![c] = 0]
    /\ sig' = [sig EXCEPT !.res = "joined"]
    /\ Return(c, "stop", "True")
    /\ UNCHANGED <<clock, stop_event, chime_intervals, workerVars, fired, steady,
                   fnOut, engineVars, chimeVars>>

(* StopJoinTimeout that reports failure and leaves _running set *)
StopJoinTimeout_StaysRunning(c) ==
    /\ pc[c] = "join"
    /\ Alive(scheduler_thread)
    /\ clock >= joinUntil[c]
    /\ running' = running
    /\ scheduler_thread' = scheduler_thread
    /\ joinUntil' = [joinUntil EXCEPT ![c] = 0]
    /\ sig' = [sig EXCEPT !.res = "timeout"]
    /\ Return(c, "stop", "False")
    /\ UNCHANGED <<clock, stop_event, chime_intervals, workerVars, fired, steady,
                   fnOut, engineVars, chimeVars>>

(* stop(), lines 131-139: join() gave up after timeout=2.0 *)
StopJoinTimeout(c) ==
    /\ pc[c] = "join"
    /\ Alive(scheduler_thread)
    /\ clock >= joinUntil[c]
    /\ running' = FALSE
    /\ scheduler_thread' = NoThread
    /\ joinUntil' = [joinUntil EXCEPT ![c] = 0]
    /\ sig' = [sig EXCEPT !.res = "timeout"]
    /\ Return(c, "stop", "True")
    /\ UNCHANGED <<clock, stop_event, chime_intervals, workerVars, fired, steady,
                   fnOut, engineVars, chimeVars>>

(* set_enabled that stores the flag without stopping a running scheduler *)
SetEnabled_NoStop(c, en) ==
    /\ pc[c] = "idle"
    /\ lock = Free
    /\ steady' = FALSE
    /\ cop' = [cop EXCEPT ![c] = "set_enabled"]
    /\ UNCHANGED <<clock, running, scheduler_thread, stop_event, chime_intervals,
                   joinUntil, workerVars, fired, sig, fnOut, engineVars, chimeVars>>
    /\ enabled' = en
    /\ IF en /\ ~running
       THEN /\ lock' = c
            /\ frame' = [frame EXCEPT ![c] = "set_enabled"]
            /\ carg' = [carg EXCEPT ![c] = en]
            /\ pc' = [pc EXCEPT ![c] = "start"]
            /\ cret' = [cret EXCEPT ![c] = "pending"]
       ELSE /\ lock' = Free
            /\ cret' = [cret EXCEPT ![c] = "None"]
            /\ UNCHANGED <<pc, frame, carg>>

(* set_enabled(enabled), lines 157-168.  self.stop() and self.start() are  *)
(* called with self._lock held.                                            *)
SetEnabled(c, en) ==
    /\ pc[c] = "idle"
    /\ lock = Free
    /\ steady' = FALSE
    /\ cop' = [cop EXCEPT ![c] = "set_enabled"]
    /\ UNCHANGED <<clock, running, scheduler_thread, stop_event, chime_intervals,
                   joinUntil, workerVars, fired, sig, fnOut, engineVars, chimeVars>>
    /\ LET was_running == running
       IN  IF ~en /\ was_running
           THEN /\ lock' = c
                /\ frame' = [frame EXCEPT ![c] = "set_enabled"]
                /\ carg' = [carg EXCEPT ![c] = en]
                /\ pc' = [pc EXCEPT ![c] = "stop"]
                /\ cret' = [cret EXCEPT ![c] = "pending"]
                /\ UNCHANGED enabled
           ELSE /\ enabled' = en
                /\ IF en /\ ~was_running /\ ~running
                   THEN /\ lock' = c
                        /\ frame' = [frame EXCEPT ![c] = "set_enabled"]
                        /\ carg' = [carg EXCEPT ![c] = en]
                        /\ pc' = [pc EXCEPT ![c] = "start"]
                        /\ cret' = [cret EXCEPT ![c] = "pending"]
                   ELSE /\ lock' = Free
                        /\ cret' = [cret EXCEPT ![c] = "None"]
                        /\ UNCHANGED <<pc, frame, carg>>

(* set_chime_interval_enabled(interval, enabled), lines 196-198 *)
SetChimeIntervalEnabled(c, interval, en) ==
    /\ pc[c] = "idle"
    /\ lock = Free
    /\ chime_intervals' = [chime_intervals EXCEPT ![interval] = en]
    /\ cop' = [cop EXCEPT ![c] = "set_chime_interval_enabled"]
    /\ cret' = [cret EXCEPT ![c] = "None"]
    /\ steady' = FALSE
    /\ UNCHANGED <<clock, enabled, running, scheduler_thread, stop_event, lock, pc,
                   frame, carg, joinUntil, workerVars, fired, sig, fnOut, engineVars, chimeVars>>

(* ChimeScheduler.cleanup(), line 441: self.stop() is called *)
SchedulerCleanup(c) ==
    /\ pc[c] = "idle"
    /\ pc' = [pc EXCEPT ![c] = "stop"]
    /\ frame' = [frame EXCEPT ![c] = "cleanup"]
    /\ cop' = [cop EXCEPT ![c] = "cleanup"]
    /\ cret' = [cret EXCEPT ![c] = "pending"]
    /\ UNCHANGED <<clock, schedVars, carg, joinUntil, workerVars, fired, steady, sig,
                   fnOut, engineVars, chimeVars>>

(* ChimeScheduler.cleanup(), lines 444-445: self._chime_callbacks.clear()  *)
(* under self._lock, and cleanup() returns                                 *)
ClearCallbacks(c) ==
    /\ pc[c] = "clear"
    /\ lock = Free
    /\ chime_callbacks' = [i \in {} |-> FALSE]
    /\ pc' = [pc EXCEPT ![c] = "idle"]
    /\ frame' = [frame EXCEPT ![c] = "top"]
    /\ cret' = [cret EXCEPT ![c] = "None"]
    /\ UNCHANGED <<clock, schedVars, cop, carg, joinUntil, workerVars, fired, steady,
                   sig, fnOut, engineVars, wcb, ccb, cblast>>

(* self._chime_callbacks.get(interval): None, which is FALSE, for a key    *)
(* the dictionary does not hold                                            *)
GetCallback(interval) ==
    IF interval \in DOMAIN chime_callbacks THEN chime_callbacks[interval] ELSE FALSE

(* set_chime_callback(interval, callback); callback None is FALSE *)
SetChimeCallback(c, interval, callback) ==
    /\ pc[c] = "idle"
    /\ lock = Free
    /\ chime_callbacks' =
          [i \in DOMAIN chime_callbacks \cup {interval} |->
             IF i = interval THEN callback ELSE chime_callbacks[i]]
    /\ cop' = [cop EXCEPT ![c] = "set_chime_callback"]
    /\ cret' = [cret EXCEPT ![c] = "None"]
    /\ UNCHANGED <<clock, schedVars, pc, frame, carg, joinUntil, workerVars, fired,
                   steady, sig, fnOut, engineVars, wcb, ccb, cblast>>

(* trigger_chime_now without the check of self._enabled *)
TriggerChimeNow_IgnoresEnabled(c, interval) ==
    /\ pc[c] = "idle"
    /\ initialized => alock = Free
    /\ cop' = [cop EXCEPT ![c] = "trigger_chime_now"]
    /\ ccb' = [ccb EXCEPT ![c] = interval]
    /\ busy' = PlayedBusy(AudioTypeOf(interval))
    /\ alast' = PlayCall(AudioTypeOf(interval))
    /\ IF PlayCall(AudioTypeOf(interval)).ret = "True" /\ GetCallback(interval)
       THEN /\ pc' = [pc EXCEPT ![c] = "callback"]
            /\ cret' = [cret EXCEPT ![c] = "pending"]
       ELSE /\ cret' = [cret EXCEPT ![c] = PlayCall(AudioTypeOf(interval)).ret]
            /\ UNCHANGED pc
    /\ UNCHANGED <<clock, schedVars, frame, carg, joinUntil, workerVars, fired, steady,
                   sig, fnOut, engine, initialized, sound_files, volume_settings,
                   master_volume, channels, alock, touched, threads, mock, prefsVars,
                   chime_callbacks, wcb, cblast>>

(* trigger_chime_now(interval) up to the callback: the enabled check, and  *)
(* in _play_chime play_sound(audio_type) and the read of the callback      *)
TriggerChimeNow(c, interval) ==
    /\ pc[c] = "idle"
    /\ (enabled /\ initialized) => alock = Free
    /\ cop' = [cop EXCEPT ![c] = "trigger_chime_now"]
    /\ ccb' = [ccb EXCEPT ![c] = interval]
    /\ IF ~enabled
       THEN /\ cret' = [cret EXCEPT ![c] = "False"]
            /\ UNCHANGED <<pc, busy, alast>>
       ELSE LET audio_type == AudioTypeOf(interval)
                success == PlayCall(audio_type).ret
                callback == GetCallback(interval)
            IN  /\ busy' = PlayedBusy(audio_type)
                /\ alast' = PlayCall(audio_type)
                /\ IF success = "True" /\ callback
                   THEN /\ pc' = [pc EXCEPT ![c] = "callback"]
                        /\ cret' = [cret EXCEPT ![c] = "pending"]
                   ELSE /\ cret' = [cret EXCEPT ![c] = success]
                        /\ UNCHANGED pc
    /\ UNCHANGED <<clock, schedVars, frame, carg, joinUntil, workerVars, fired, steady,
                   sig, fnOut, engine, initialized, sound_files, volume_settings,
                   master_volume, channels, alock, touched, threads, mock, prefsVars,
                   chime_callbacks, wcb, cblast>>

(* lines 398-406: the callback that was read is called, and _play_chime    *)
(* and trigger_chime_now return success                                    *)
TriggerCallback(c) ==
    /\ pc[c] = "callback"
    /\ pc' = [pc EXCEPT ![c] = "idle"]
    /\ cret' = [cret EXCEPT ![c] = "True"]
    /\ cblast' = [interval |-> ccb[c], by |-> c,
                  registered |-> GetCallback(ccb[c])]
    /\ UNCHANGED <<clock, schedVars, frame, cop, carg, joinUntil, workerVars, fired,
                   steady, sig, fnOut, engineVars, chime_callbacks, wcb, ccb>>

----------------------------------------------------------------------------
(* The loop worker: _scheduler_loop, lines 294-334.  A local that is not   *)
(* read again before it is assigned is put back to its initial value.      *)

Bump(n) == IF n < MaxFired THEN n + 1 ELSE MaxFired

Goto(w, p, next_chime_time, now, chimes_to_play) ==
    /\ wpc' = [wpc EXCEPT ![w] = p]
    /\ wnext' = [wnext EXCEPT ![w] = next_chime_time]
    /\ wnow' = [wnow EXCEPT ![w] = now]
    /\ wq' = [wq EXCEPT ![w] = chimes_to_play]
    /\ wuntil' = [wuntil EXCEPT ![w] = 0]
    /\ wkind' = [wkind EXCEPT ![w] = "none"]

(* self._stop_event.wait(seconds), called at time t *)
Wait(w, t, seconds, kind) ==
    /\ wpc' = [wpc EXCEPT ![w] = "wait"]
    /\ wnext' = [wnext EXCEPT ![w] = None]
    /\ wnow' = [wnow EXCEPT ![w] = 0]
    /\ wq' = [wq EXCEPT ![w] = <<>>]
    /\ wuntil' = [wuntil EXCEPT ![w] = t + seconds]
    /\ wkind' = [wkind EXCEPT ![w] = kind]

(* line 299: while not self._stop_event.is_set() *)
LoopCheck(w) ==
    /\ wpc[w] = "check"
    /\ IF stop_event
       THEN Goto(w, "dead", None, 0, <<>>)
       ELSE Goto(w, "next", None, 0, <<>>)
    /\ UNCHANGED <<clock, schedVars, callerVars, fired, steady, sig, fnOut, engineVars, chimeVars>>

(* lines 302-307: next_chime_time = self.get_next_chime_time() *)
LoopNext(w) ==
    /\ wpc[w] = "next"
    /\ LET next_chime_time == GetNextChimeTime(clock, enabled, chime_intervals)
       IN  IF next_chime_time = None
           THEN Wait(w, clock, PollSeconds, "poll")
           ELSE Goto(w, "now", next_chime_time, 0, <<>>)
    /\ UNCHANGED <<clock, schedVars, callerVars, fired, steady, sig, fnOut, engineVars, chimeVars>>

(* LoopNow that waits the whole time until the chime *)
LoopNow_NoCeiling(w, H) ==
    /\ wpc[w] = "now"
    /\ \E d \in Delay(w) : Advance(clock + d, H)
    /\ LET now == clock'
           time_until_chime == wnext[w] - now
       IN  IF time_until_chime <= 0
           THEN Goto(w, "fire", None, now, <<>>)
           ELSE Wait(w, now, time_until_chime, "chime")
    /\ UNCHANGED <<schedVars, callerVars, sig, fnOut, engineVars, chimeVars>>

(* lines 310-321: now = datetime.now(), then fire or wait *)
LoopNow(w, H) ==
    /\ wpc[w] = "now"
    /\ \E d \in Delay(w) : Advance(clock + d, H)
    /\ LET now == clock'
           time_until_chime == wnext[w] - now
       IN  IF time_until_chime <= 0
           THEN Goto(w, "fire", None, now, <<>>)
           ELSE Wait(w, now, IF time_until_chime < PollSeconds
                             THEN time_until_chime ELSE PollSeconds, "chime")
    /\ UNCHANGED <<schedVars, callerVars, sig, fnOut, engineVars, chimeVars>>

(* lines 343-361: _check_and_play_chimes builds chimes_to_play *)
LoopFire(w) ==
    /\ wpc[w] = "fire"
    /\ LET chimes_to_play == ChimesToPlay(MinuteOf(wnow[w]), chime_intervals)
       IN  IF chimes_to_play = <<>>
           THEN Wait(w, clock, DebounceSeconds, "debounce")
           ELSE Goto(w, "play", None, 0, chimes_to_play)
    /\ UNCHANGED <<clock, schedVars, callerVars, fired, steady, sig, fnOut, engineVars, chimeVars>>

(* lines 364-365, 391-397: play_sound(audio_type), then the callback is read *)
LoopPlay(w) ==
    /\ wpc[w] = "play"
    /\ initialized => alock = Free
    /\ wpc' = [wpc EXCEPT ![w] = "inplay"]
    /\ fired' = [fired EXCEPT ![Head(wq[w])] = Bump(@)]
    /\ sig' = IF sig.w = w THEN [sig EXCEPT !.played = TRUE] ELSE sig
    /\ LET interval == Head(wq[w])
           audio_type == AudioTypeOf(interval)
       IN  /\ busy' = PlayedBusy(audio_type)
           /\ alast' = PlayCall(audio_type)
           /\ wcb' = [wcb EXCEPT ![w] = PlayCall(audio_type).ret = "True"
                                           /\ GetCallback(interval)]
    /\ UNCHANGED <<clock, schedVars, callerVars, wnext, wnow, wuntil, wkind, wq,
                   steady, fnOut, engine, initialized, sound_files, volume_settings,
                   master_volume, channels, alock, touched, threads, mock, prefsVars,
                   chime_callbacks, ccb, cblast>>

(* lines 397-406, 317: the callback read at line 397 is called, then the   *)
(* debounce wait                                                           *)
LoopPlayReturn(w) ==
    /\ wpc[w] = "inplay"
    /\ cblast' = IF wcb[w]
                 THEN [interval |-> Head(wq[w]), by |-> "loop",
                       registered |-> GetCallback(Head(wq[w]))]
                 ELSE cblast
    /\ wcb' = [wcb EXCEPT ![w] = FALSE]
    /\ IF Tail(wq[w]) = <<>>
       THEN Wait(w, clock, DebounceSeconds, "debounce")
       ELSE Goto(w, "play", None, 0, Tail(wq[w]))
    /\ UNCHANGED <<clock, schedVars, callerVars, fired, steady, sig, fnOut, engineVars,
                   chime_callbacks, ccb>>

(* lines 397-406: the callback that was read calls self.stop() on the loop *)
(* worker and returns, then the debounce wait.  stop() sets the stop event *)
(* and joins self._scheduler_thread: when that is the calling thread,      *)
(* join() raises RuntimeError and stop() returns False from its except     *)
(* branch, leaving _running and _scheduler_thread as they were.  (A        *)
(* callback on a worker that stop() has given up, joining the worker that  *)
(* replaced it, is not followed.)                                          *)
LoopCallbackStop(w) ==
    /\ wpc[w] = "inplay"
    /\ wcb[w]
    /\ lock = Free
    /\ scheduler_thread = w \/ ~running \/ ~Alive(scheduler_thread)
    /\ stop_event' = (running \/ stop_event)
    /\ running' = (running /\ scheduler_thread = w)
    /\ scheduler_thread' = IF running /\ scheduler_thread # w THEN NoThread
                           ELSE scheduler_thread
    /\ steady' = FALSE
    /\ cblast' = [interval |-> Head(wq[w]), by |-> "loop",
                  registered |-> GetCallback(Head(wq[w]))]
    /\ wcb' = [wcb EXCEPT ![w] = FALSE]
    /\ IF Tail(wq[w]) = <<>>
       THEN Wait(w, clock, DebounceSeconds, "debounce")
       ELSE Goto(w, "play", None, 0, Tail(wq[w]))
    /\ UNCHANGED <<clock, enabled, chime_intervals, lock, callerVars, fired, sig, fnOut,
                   engineVars, chime_callbacks, ccb>>

(* an exception in the iteration that ends the loop *)
LoopFault_Dies(w) ==
    /\ wpc[w] \in {"next", "now", "fire"}
    /\ Goto(w, "dead", None, 0, <<>>)
    /\ UNCHANGED <<clock, schedVars, callerVars, fired, steady, sig, fnOut, engineVars, chimeVars>>

(* lines 323-331: an exception in the iteration, then the cooldown wait *)
LoopFault(w) ==
    /\ wpc[w] \in {"next", "now", "fire"}
    /\ Wait(w, clock, CooldownSeconds, "cooldown")
    /\ UNCHANGED <<clock, schedVars, callerVars, fired, steady, sig, fnOut, engineVars, chimeVars>>

(* Event.wait returns: the timeout ran out, or the event is set *)
LoopWake(w, H) ==
    /\ wpc[w] = "wait"
    /\ WaitOver(w)
    /\ \E d \in Delay(w) : Advance(clock + d, H)
    /\ Goto(w, "check", None, 0, <<>>)
    /\ UNCHANGED <<schedVars, callerVars, sig, fnOut, engineVars, chimeVars>>

----------------------------------------------------------------------------
(* The scheduler driven through its public operations *)
Next ==
    \/ Tick(Horizon)
    \/ \E c \in Callers : Start(c)
    \/ \E c \in Callers : Stop(c)
    \/ \E c \in Callers : StopJoined(c)
    \/ \E c \in Callers : StopJoinTimeout(c)
    \/ \E c \in Callers : \E en \in BOOLEAN : SetEnabled(c, en)
    \/ \E c \in Callers : \E i \in ChimeInterval : \E en \in BOOLEAN :
          SetChimeIntervalEnabled(c, i, en)
    \/ \E w \in Workers : LoopCheck(w)
    \/ \E w \in Workers : LoopNext(w)
    \/ \E w \in Workers : LoopNow(w, Horizon)
    \/ \E w \in Workers : LoopFire(w)
    \/ \E w \in Workers : LoopPlay(w)
    \/ \E w \in Workers : LoopPlayReturn(w)
    \/ \E w \in Workers : LoopFault(w)
    \/ \E w \in Workers : LoopWake(w, Horizon)

Spec == Init /\ [][Next]_vars

(* The loop left to run: the intervals are configured, start() is called,  *)
(* and then nothing but the clock and the loop worker acts.                *)
InitLoop ==
    /\ clock \in StartTimes
    /\ \E ivs \in [ChimeInterval -> BOOLEAN] : InitSchedulerWith(TRUE, ivs)
    /\ InitAudioManager

NextLoop ==
    \/ Tick(LoopHorizon)
    \/ \E c \in Callers : Start(c)
    \/ \E w \in Workers : LoopCheck(w)
    \/ \E w \in Workers : LoopNext(w)
    \/ \E w \in Workers : LoopNow(w, LoopHorizon)
    \/ \E w \in Workers : LoopFire(w)
    \/ \E w \in Workers : LoopPlay(w)
    \/ \E w \in Workers : LoopPlayReturn(w)
    \/ \E w \in Workers : LoopWake(w, LoopHorizon)

SpecLoop == InitLoop /\ [][NextLoop]_vars

(* The loop left to run while the intervals are switched on and off *)
NextPoll ==
    \/ Tick(LoopHorizon)
    \/ \E c \in Callers : Start(c)
    \/ \E c \in Callers : \E i \in ChimeInterval : \E en \in BOOLEAN :
          SetChimeIntervalEnabled(c, i, en)
    \/ \E w \in Workers : LoopCheck(w)
    \/ \E w \in Workers : LoopNext(w)
    \/ \E w \in Workers : LoopNow(w, LoopHorizon)
    \/ \E w \in Workers : LoopFire(w)
    \/ \E w \in Workers : LoopPlay(w)
    \/ \E w \in Workers : LoopPlayReturn(w)
    \/ \E w \in Workers : LoopWake(w, LoopHorizon)

SpecPoll == InitLoop /\ [][NextPoll]_vars

----------------------------------------------------------------------------
(* Chimes played at once and by the loop.  The scheduler is given an       *)
(* AudioManager in which some of the chime sounds are loaded; none of them *)
(* plays out within the seconds that are followed.                         *)

ChimeTypes == {AudioTypeOf(i) : i \in ChimeInterval}

InitChimeEngine ==
    /\ engine = AudioManager
    /\ initialized = TRUE
    /\ \E loaded \in SUBSET ChimeTypes :
          sound_files = [T \in AudioType |->
                           IF T \in loaded
                           THEN EffectiveVolume(DefaultVolume(T), VolumeOne)
                           ELSE None]
    /\ volume_settings = [T \in AudioType |-> DefaultVolume(T)]
    /\ master_volume = VolumeOne
    /\ channels = NewChannels({})
    /\ busy = Silent
    /\ alock = Free
    /\ alast = CallNone
    /\ touched = {}
    /\ threads = [t \in Threads |-> ThreadIdle]
    /\ mock = InitMock
    /\ InitPreferences

(* trigger_chime_now() on a scheduler whose intervals are configured, that *)
(* is started, enabled and disabled                                        *)
InitTrigger ==
    /\ clock = LateStart
    /\ \E ivs \in [ChimeInterval -> BOOLEAN] : InitSchedulerWith(TRUE, ivs)
    /\ InitChimeEngine

NextTrigger ==
    \/ Tick(ChimeHorizon)
    \/ \E c \in Callers : Start(c)
    \/ \E c \in Callers : \E en \in BOOLEAN : SetEnabled(c, en)
    \/ \E c \in Callers : \E i \in ChimeInterval : TriggerChimeNow(c, i)
    \/ \E w \in Workers : LoopCheck(w)
    \/ \E w \in Workers : LoopNext(w)
    \/ \E w \in Workers : LoopNow(w, ChimeHorizon)
    \/ \E w \in Workers : LoopFire(w)
    \/ \E w \in Workers : LoopPlay(w)
    \/ \E w \in Workers : LoopPlayReturn(w)
    \/ \E w \in Workers : LoopWake(w, ChimeHorizon)

SpecTrigger == InitTrigger /\ [][NextTrigger]_vars

(* chimes with callbacks: the callbacks are set and removed while chimes   *)
(* are triggered and the loop runs                                         *)
InitChime ==
    /\ clock = LateStart
    /\ InitScheduler
    /\ InitChimeEngine

NextChime ==
    \/ Tick(ChimeHorizon)
    \/ \E c \in Callers : Start(c)
    \/ \E c \in Callers : \E i \in ChimeInterval : \E cb \in BOOLEAN :
          SetChimeCallback(c, i, cb)
    \/ \E c \in Callers : \E i \in ChimeInterval : TriggerChimeNow(c, i)
    \/ \E c \in Callers : TriggerCallback(c)
    \/ \E w \in Workers : LoopCheck(w)
    \/ \E w \in Workers : LoopNext(w)
    \/ \E w \in Workers : LoopNow(w, ChimeHorizon)
    \/ \E w \in Workers : LoopFire(w)
    \/ \E w \in Workers : LoopPlay(w)
    \/ \E w \in Workers : LoopPlayReturn(w)
    \/ \E w \in Workers : LoopWake(w, ChimeHorizon)

SpecChime == InitChime /\ [][NextChime]_vars

(* callbacks that call stop(): the scheduler is started and stopped while  *)
(* the loop plays the chimes and calls the callbacks                       *)
NextCallback ==
    \/ Tick(Horizon)
    \/ \E c \in Callers : Start(c)
    \/ \E c \in Callers : Stop(c)
    \/ \E c \in Callers : StopJoined(c)
    \/ \E c \in Callers : StopJoinTimeout(c)
    \/ \E c \in Callers : \E i \in ChimeInterval : \E cb \in BOOLEAN :
          SetChimeCallback(c, i, cb)
    \/ \E w \in Workers : LoopCheck(w)
    \/ \E w \in Workers : LoopNext(w)
    \/ \E w \in Workers : LoopNow(w, Horizon)
    \/ \E w \in Workers : LoopFire(w)
    \/ \E w \in Workers : LoopPlay(w)
    \/ \E w \in Workers : LoopPlayReturn(w)
    \/ \E w \in Workers : LoopCallbackStop(w)
    \/ \E w \in Workers : LoopWake(w, Horizon)

SpecCallback == InitChime /\ [][NextCallback]_vars

(* the scheduler cleaned up: callbacks are set, the scheduler is started   *)
(* and stopped, and cleanup() is called                                    *)
NextCleanup ==
    \/ Tick(Horizon)
    \/ \E c \in Callers : Start(c)
    \/ \E c \in Callers : Stop(c)
    \/ \E c \in Callers : StopJoined(c)
    \/ \E c \in Callers : StopJoinTimeout(c)
    \/ \E c \in Callers : \E i \in ChimeInterval : \E cb \in BOOLEAN :
          SetChimeCallback(c, i, cb)
    \/ \E c \in Callers : SchedulerCleanup(c)
    \/ \E c \in Callers : ClearCallbacks(c)
    \/ \E w \in Workers : LoopCheck(w)
    \/ \E w \in Workers : LoopNext(w)
    \/ \E w \in Workers : LoopNow(w, Horizon)
    \/ \E w \in Workers : LoopFire(w)
    \/ \E w \in Workers : LoopPlay(w)
    \/ \E w \in Workers : LoopPlayReturn(w)
    \/ \E w \in Workers : LoopWake(w, Horizon)

SpecCleanup == Init /\ [][NextCleanup]_vars

----------------------------------------------------------------------------
(* The audio engine on its own, driven through its public operations while *)
(* the sounds play out                                                     *)
InitAudio ==
    /\ clock = LateStart
    /\ InitScheduler
    /\ InitEngine

NextEngine ==
    \/ \E c \in Callers : \E ok \in BOOLEAN : Initialize(c, ok)
    \/ \E c \in Callers : \E T \in AudioType : \E path \in Paths :
          LoadSoundFile(c, T, path)
    \/ \E c \in Callers : \E T \in AudioType : PlaySound(c, T)
    \/ \E c \in Callers : \E T \in AudioType : StopSound(c, T)
    \/ \E c \in Callers : StopAllSounds(c)
    \/ \E c \in Callers : Cleanup(c)
    \/ \E n \in ChannelNumbers : ChannelFinish(n)

SpecEngine == InitAudio /\ [][NextEngine]_vars

(* The volumes of the engine: sounds are loaded and the two setters are    *)
(* called, for one type of each initial volume                             *)
VolumeTypes == {TICK, HOUR_CHIME, SPEECH}

NextVolume ==
    \/ \E c \in Callers : \E ok \in BOOLEAN : Initialize(c, ok)
    \/ \E c \in Callers : \E T \in VolumeTypes : \E path \in Paths :
          LoadSoundFile(c, T, path)
    \/ \E c \in Callers : \E T \in VolumeTypes : \E v \in Volumes :
          SetVolume(c, T, v)
    \/ \E c \in Callers : \E v \in Volumes : SetMasterVolume(c, v)

SpecVolume == InitAudio /\ [][NextVolume]_vars

----------------------------------------------------------------------------
(* An AudioManager whose mixer calls may raise: loading, playing and       *)
(* stopping, with and without an exception at the backend.                 *)

FaultTypes == {TICK, HOUR_CHIME, SPEECH}

InitFault == clock = LateStart /\ InitScheduler /\ InitAudioManager

NextFault ==
    \/ \E c \in Callers : \E T \in FaultTypes : \E path \in Paths :
          LoadSoundFile(c, T, path)
    \/ \E c \in Callers : \E T \in FaultTypes : PlaySound(c, T)
    \/ \E c \in Callers : \E T \in FaultTypes : StopSound(c, T)
    \/ \E c \in Callers : \E T \in FaultTypes : \E at \in ChannelCalls :
          PlaySoundError(c, T, at)
    \/ \E c \in Callers : \E T \in FaultTypes : \E at \in ChannelCalls :
          StopSoundError(c, T, at)
    \/ \E n \in ChannelNumbers : ChannelFinish(n)

SpecFault == InitFault /\ [][NextFault]_vars

----------------------------------------------------------------------------
(* PreferencesManager (managers/preferences_manager.py): the preferences   *)
(* in memory, the file preferences.json and its backup.  The methods are   *)
(* functions of a record p of the manager's state: mem is                  *)
(* self._preferences, main and backup are the two files, ret is what the   *)
(* method returned.                                                        *)

PrefsState ==
    [mem |-> preferences, main |-> preferences_file, backup |-> backup_file,
     saved |-> saved, ret |-> "none"]

(* a file holds JSON that from_dict() and validate() accept *)
Readable(file) == file.kind = "json" /\ Validate(file.data)

(* _create_backup(): copy2 of the main file as it is now, when it exists *)
CreateBackup(p) == IF p.main.kind # "absent" THEN p.main ELSE p.backup

(* save_preferences() *)
Save(p) ==
    IF ~p.mem.set \/ ~Validate(p.mem.value)
    THEN [p EXCEPT !.ret = "False"]
    ELSE [mem |-> p.mem,
          main |-> Json(p.mem.value),
          backup |-> CreateBackup(p),
          saved |-> p.mem,
          ret |-> "True"]

(* _load_default_preferences(): the defaults, then save_preferences() *)
LoadDefault(p) ==
    [Save([p EXCEPT !.mem = Some(DefaultPreferences)]) EXCEPT !.ret = "defaults"]

(* load_preferences(), with _try_load_backup() when the main file cannot   *)
(* be read                                                                 *)
Load(p) ==
    IF Readable(p.main) THEN [p EXCEPT !.mem = Some(p.main.data), !.ret = "main"]
    ELSE IF p.main.kind = "absent" THEN LoadDefault(p)
    ELSE IF Readable(p.backup)
         THEN [p EXCEPT !.mem = Some(p.backup.data), !.ret = "backup"]
         ELSE LoadDefault(p)

(* the keys set_preference is called with, and setattr / target[key] = v *)
PrefKeys == {"chime_enabled", "volume_settings.master"}
PrefValues(key) ==
    IF key = "chime_enabled" THEN BOOLEAN ELSE {5, VolumeOne, 2 * VolumeOne}

Assigned(value, key, v) ==
    IF key = "chime_enabled"
    THEN [value EXCEPT !.chime_enabled = v]
    ELSE [value EXCEPT !.master = v]

(* set_preference(key, value): load when nothing is loaded, assign,        *)
(* validate, save                                                          *)
Set(p, key, v) ==
    LET q == IF p.mem.set THEN p ELSE Load(p)
        r == [q EXCEPT !.mem = Some(Assigned(q.mem.value, key, v))]
    IN  IF Validate(r.mem.value) THEN Save(r) ELSE [r EXCEPT !.ret = "False"]

outsidePrefs == <<clock, schedVars, callerVars, workerVars, fired, steady, sig, fnOut,
                  engine, initialized, sound_files, volume_settings, master_volume,
                  channels, busy, alock, alast, touched, threads, mock, chimeVars>>

(* the manager's state after a call that left it as p *)
Becomes(p, op, key) ==
    /\ preferences' = p.mem
    /\ preferences_file' = p.main
    /\ backup_file' = p.backup
    /\ saved' = p.saved
    /\ plast' = [op |-> op, key |-> key, ret |-> p.ret, value |-> p.mem,
                 main |-> preferences_file.kind, saved |-> saved]
    /\ UNCHANGED outsidePrefs

LoadPreferences == Becomes(Load(PrefsState), "load_preferences", "none")

SavePreferences == Becomes(Save(PrefsState), "save_preferences", "none")

SetPreference(key, v) == Becomes(Set(PrefsState, key, v), "set_preference", key)

(* preferences.chime_enabled = v on the object load_preferences() returned *)
AssignChimeEnabled(v) ==
    /\ preferences.set
    /\ Becomes([PrefsState EXCEPT !.mem = Some(Assigned(preferences.value, "chime_enabled", v))],
               "assign", "chime_enabled")

(* the main file is overwritten with text that is not JSON *)
CorruptFile ==
    /\ preferences_file.kind = "json"
    /\ Becomes([PrefsState EXCEPT !.main = Corrupt], "corrupt", "none")

(* PreferencesManager() again, on the same configuration directory *)
NewManager ==
    /\ preferences.set
    /\ Becomes([PrefsState EXCEPT !.mem = NoPreferences], "__init__", "none")

InitPrefs ==
    /\ clock = LateStart
    /\ InitScheduler
    /\ InitAudioManager

NextPrefs ==
    \/ LoadPreferences
    \/ SavePreferences
    \/ \E key \in PrefKeys : \E v \in PrefValues(key) : SetPreference(key, v)
    \/ \E v \in BOOLEAN : AssignChimeEnabled(v)
    \/ CorruptFile
    \/ NewManager

SpecPrefs == InitPrefs /\ [][NextPrefs]_vars

----------------------------------------------------------------------------
(* A PygameAudioBackend and a MockAudioBackend, constructed and then       *)
(* driven by the same calls; every existing file of a supported format     *)
(* can be decoded.                                                         *)

BackendTypes == {TICK, HOUR_CHIME}

BackendPaths == {path \in Paths : (path.exists /\ IsSupportedFormat(path)) => path.loads}

InitBackends ==
    /\ clock = LateStart
    /\ InitScheduler
    /\ InitEngine
    /\ engine = PygameAudioBackend

NextBackends ==
    \/ \E c \in Callers : BothInitialize(c, TRUE)
    \/ \E c \in Callers : \E T \in BackendTypes : \E path \in BackendPaths :
          BothLoadSoundFile(c, T, path)
    \/ \E c \in Callers : \E T \in BackendTypes : BothPlaySound(c, T)
    \/ \E c \in Callers : \E T \in BackendTypes : BothStopSound(c, T)
    \/ \E c \in Callers : \E T \in BackendTypes : \E v \in Volumes :
          BothSetVolume(c, T, v)
    \/ \E c \in Callers : \E v \in Volumes : BothSetMasterVolume(c, v)
    \/ \E c \in Callers : BothCleanup(c)

SpecBackends == InitBackends /\ [][NextBackends]_vars

----------------------------------------------------------------------------
(* Threads calling the volume setters and load_sound_file of one           *)
(* AudioManager at the same time.                                          *)

InitThreads == clock = LateStart /\ InitScheduler /\ InitAudioManager

NextThreads ==
    \/ \E t \in Threads : \E T \in ThreadTypes : \E v \in ThreadVolumes :
          ThreadSetVolume(t, T, v)
    \/ \E t \in Threads : \E v \in ThreadVolumes : ThreadSetMasterVolume(t, v)
    \/ \E t \in Threads : \E T \in ThreadTypes : \E path \in Paths :
          ThreadLoadSoundFile(t, T, path)
    \/ \E t \in Threads : ThreadAcquire(t)
    \/ \E t \in Threads : ThreadStore(t)
    \/ \E t \in Threads : ThreadRead(t)
    \/ \E t \in Threads : ThreadApply(t)
    \/ \E t \in Threads : ThreadRelease(t)

SpecThreads == InitThreads /\ [][NextThreads]_vars

----------------------------------------------------------------------------
(* The volumes read back between calls of the setters. *)

NextGet ==
    \/ \E c \in Callers : \E ok \in BOOLEAN : Initialize(c, ok)
    \/ \E c \in Callers : \E T \in VolumeTypes : \E v \in Volumes : SetVolume(c, T, v)
    \/ \E c \in Callers : \E v \in Volumes : SetMasterVolume(c, v)
    \/ \E c \in Callers : \E T \in AudioType : GetVolume(c, T)
    \/ \E c \in Callers : GetMasterVolume(c)

SpecGet == InitAudio /\ [][NextGet]_vars

----------------------------------------------------------------------------
(* Files validated by the engine and by a MockAudioBackend while the tick  *)
(* sound is loaded and played.                                             *)

NextValidate ==
    \/ \E c \in Callers : \E ok \in BOOLEAN : Initialize(c, ok)
    \/ \E c \in Callers : \E path \in Paths : LoadSoundFile(c, TICK, path)
    \/ \E c \in Callers : PlaySound(c, TICK)
    \/ \E c \in Callers : \E path \in Paths : ValidateAudioFile(c, path)
    \/ \E c \in Callers : \E path \in Paths : MockValidateAudioFile(c, path)

SpecValidate == InitAudio /\ [][NextValidate]_vars

----------------------------------------------------------------------------
(* Sound packs loaded into an AudioManager, one after another. *)

InitPack ==
    /\ clock = LateStart
    /\ InitScheduler
    /\ InitEngine
    /\ engine = AudioManager
    /\ channels \in {NewChannels({}), MockChannels}

NextPack == \E c \in Callers : \E pack \in Packs : LoadSoundPack(c, pack)

SpecPack == InitPack /\ [][NextPack]_vars

----------------------------------------------------------------------------
(* The two decisions of the loop as functions of a sampled time: every     *)
(* hour and minute of a day, at the first and the last second of the       *)
(* minute, under every setting of the scheduler.                           *)

SampleSeconds == {0, 59}

InitFn ==
    /\ clock \in {At(h, m, sec) : h \in 0..23, m \in 0..59, sec \in SampleSeconds}
    /\ \E en \in BOOLEAN : \E ivs \in [ChimeInterval -> BOOLEAN] :
          InitSchedulerWith(en, ivs)
    /\ InitAudioManager

(* get_next_chime_time() called with datetime.now() = clock *)
CallGetNextChimeTime ==
    /\ fnOut' = [op |-> "get_next_chime_time",
                 next |-> GetNextChimeTime(clock, enabled, chime_intervals),
                 chimes |-> <<>>]
    /\ UNCHANGED <<clock, schedVars, callerVars, workerVars, fired, steady, sig,
                   engineVars, chimeVars>>

(* _check_and_play_chimes(current_time) called with current_time = clock *)
CallCheckAndPlayChimes ==
    /\ fnOut' = [op |-> "_check_and_play_chimes",
                 next |-> None,
                 chimes |-> ChimesToPlay(MinuteOf(clock), chime_intervals)]
    /\ UNCHANGED <<clock, schedVars, callerVars, workerVars, fired, steady, sig,
                   engineVars, chimeVars>>

NextFn ==
    \/ CallGetNextChimeTime
    \/ CallCheckAndPlayChimes

SpecFn == InitFn /\ [][NextFn]_vars

----------------------------------------------------------------------------
(* Properties *)

(* the boundary minutes of an interval *)
IsBoundary(i, minute) ==
    CASE i = HOUR -> minute = 0
      [] i = HALF_HOUR -> minute = 30
      [] i = QUARTER_HOUR -> minute \in {15, 45}

(* the first instant after t that is a whole multiple of the interval *)
PeriodSeconds(i) ==
    CASE i = QUARTER_HOUR -> 15 * 60
      [] i = HALF_HOUR -> 30 * 60
      [] i = HOUR -> 60 * 60
NextBoundary(i, t) == ((t \div PeriodSeconds(i)) + 1) * PeriodSeconds(i)

EnabledIntervals == {i \in ChimeInterval : chime_intervals[i]}
WorkersAlive == {w \in Workers : wpc[w] # "dead"}

(* C1: while the scheduler is running and enabled and no operation is      *)
(* called, every boundary minute of an enabled interval that the clock     *)
(* passes has had a play request of the loop for that interval by the time *)
(* the minute ends.                                                        *)
C1_BoundaryChimePlayed ==
    [][(clock' \div 60 # clock \div 60 /\ steady /\ running /\ enabled)
        => \A i \in ChimeInterval :
              (chime_intervals[i] /\ IsBoundary(i, MinuteOf(clock))) => fired[i] >= 1]_vars

(* C2: within one minute of the clock the loop issues at most one play     *)
(* request for an interval's chime, at every hour of the day.              *)
C2_AtMostOncePerMinute == \A i \in ChimeInterval : fired[i] <= 1

(* C3: with the scheduler enabled and some interval enabled,               *)
(* get_next_chime_time() returns an instant strictly later than the        *)
(* sampled time, with seconds zero, the earliest of the enabled intervals' *)
(* next boundaries.                                                        *)
C3_NextChimeTime ==
    (fnOut.op = "get_next_chime_time" /\ enabled /\ EnabledIntervals # {})
    => /\ fnOut.next > clock
       /\ SecondOf(fnOut.next) = 0
       /\ fnOut.next = SetMin({NextBoundary(i, clock) : i \in EnabledIntervals})

(* C4: the firing decision at a sampled instant requests exactly the       *)
(* enabled interval whose boundary minute it is: Hour at minute 0, Half at *)
(* 30, Quarter at 15 and 45, nothing at any other minute, never more than  *)
(* one chime.                                                              *)
C4_FiringDecision ==
    fnOut.op = "_check_and_play_chimes"
    => /\ Len(fnOut.chimes) <= 1
       /\ {fnOut.chimes[k] : k \in 1..Len(fnOut.chimes)}
            = {i \in EnabledIntervals : IsBoundary(i, MinuteOf(clock))}

C4_Witness ==
    /\ fnOut.op = "_check_and_play_chimes"
    /\ MinuteOf(clock) = 0
    /\ EnabledIntervals = ChimeInterval
    /\ fnOut.chimes = <<HOUR>>

(* C5: set_enabled(false) on a running scheduler returns: its stop() is    *)
(* never waiting for self._lock while the calling thread holds that lock.  *)
C5_SetEnabledFalseReturns ==
    \A c \in Callers : (frame[c] = "set_enabled" /\ pc[c] = "stop") => lock # c

(* C6: set_enabled(true) on a disabled, stopped scheduler returns: its     *)
(* start() is never waiting for self._lock while the calling thread holds  *)
(* that lock.                                                              *)
C6_SetEnabledTrueReturns ==
    \A c \in Callers : (frame[c] = "set_enabled" /\ pc[c] = "start") => lock # c

(* C7: start() returns true and leaves the scheduler running iff the       *)
(* scheduler is enabled; already running, it starts no worker; disabled,   *)
(* it starts no worker and the scheduler stays stopped; otherwise it       *)
(* starts exactly one worker.                                              *)
C7_Start ==
    [][\A c \in Callers :
         (Start(c) /\ frame[c] = "top")
         => /\ cret'[c] = (IF enabled THEN "True" ELSE "False")
            /\ running' = enabled
            /\ running => (wpc' = wpc /\ scheduler_thread' = scheduler_thread)
            /\ ~enabled => (wpc' = wpc /\ ~running /\ ~running')
            /\ (enabled /\ ~running)
                  => /\ scheduler_thread' \notin WorkersAlive
                     /\ WorkersAlive' = WorkersAlive \cup {scheduler_thread'}]_vars

C7_Witness ==
    \E c \in Callers :
        /\ cop[c] = "start"
        /\ cret[c] = "True"
        /\ running
        /\ wpc[scheduler_thread] = "check"

C9_Restart ==
    (sig.restart /\ sig.res = "none")
    => /\ running
       /\ ~stop_event
       /\ Alive(scheduler_thread)
       /\ \A c \in Callers : cop[c] = "start" => cret[c] = "True"

C9_Witness ==
    /\ sig.restart
    /\ sig.res = "none"
    /\ running
    /\ wpc[scheduler_thread] = "wait"

(* C10: a worker that stop() finds blocked in a wait issues no play        *)
(* request afterwards and is gone before the join timeout runs out, so     *)
(* that stop() returns after a join that did not time out, the worker not  *)
(* alive.                                                                  *)
C10_StopWakesWaitingWorker ==
    sig.kind # "none"
    => /\ ~sig.played
       /\ sig.res # "timeout"
       /\ (sig.res = "pending" /\ Alive(sig.w))
             => \A c \in Callers : pc[c] = "join" => clock < joinUntil[c]
       /\ sig.res = "joined" => ~Alive(sig.w)

C10_Witness ==
    /\ sig.kind = "chime"
    /\ sig.res = "joined"
    /\ ~Alive(sig.w)
    /\ \A c \in Callers : pc[c] = "idle" /\ cop[c] = "stop" /\ cret[c] = "True"

(* C11: no public operation blocks forever waiting for a lock: no caller   *)
(* waits for the scheduler's or the engine's lock while holding that lock  *)
(* itself.                                                                 *)
C11_NoOperationBlocksForever ==
    \A c \in Callers :
        /\ pc[c] \in {"start", "stop"} => lock # c
        /\ pc[c] = "stop_sound" => alock # c

(* C12: trigger_chime_now(I) on an enabled scheduler makes one engine      *)
(* call, play_sound of the AudioType mapped to I, and returns what that    *)
(* call returned, whether or not the scheduler runs or I is enabled; on a  *)
(* disabled scheduler it returns false and makes no engine call.           *)
C12_TriggerChimeNow ==
    [][\A c \in Callers : \A I \in ChimeInterval :
         TriggerChimeNow(c, I)
         => IF enabled
            THEN /\ alast'.op = "play_sound"
                 /\ alast'.type = (CASE I = QUARTER_HOUR -> QUARTER_CHIME
                                     [] I = HALF_HOUR -> HALF_CHIME
                                     [] I = HOUR -> HOUR_CHIME)
                 /\ alast'.ret = (IF CanPlay(alast'.type) THEN "True" ELSE "False")
                 /\ alast'.starts = (IF CanPlay(alast'.type) THEN 1 ELSE 0)
                 /\ cret'[c] = alast'.ret
                 /\ pc'[c] = "idle"
            ELSE /\ UNCHANGED engineVars
                 /\ cret'[c] = "False"
                 /\ pc'[c] = "idle"]_vars

C12_Witness ==
    \E c \in Callers :
        /\ cop[c] = "trigger_chime_now"
        /\ cret[c] = "True"
        /\ ccb[c] = HALF_HOUR
        /\ alast = [op |-> "play_sound", type |-> HALF_CHIME, ret |-> "True",
                    stops |-> 0, starts |-> 1]
        /\ ~running
        /\ ~chime_intervals[HALF_HOUR]

(* C13: a callback is invoked only for a chime whose play request          *)
(* succeeded and only while it is registered: once set_chime_callback(I,   *)
(* None) has returned, the callback of I is not invoked again.             *)
C13_CallbackOnlyWhileRegistered ==
    cblast.interval # "none" => cblast.registered

(* C14: play_sound(A) and stop_sound(A) leave is_playing(B) and the sound  *)
(* loaded for B as they were, for every type B other than A; no two types  *)
(* have the same channel.                                                  *)
C14_TypesAreIndependent ==
    [][/\ \A A \in AudioType : \A B \in AudioType \ {A} :
             channels[A] # None => channels[A] # channels[B]
       /\ \A c \in Callers : \A A \in AudioType :
             (/\ alast'.type = A
              /\ PlaySound(c, A) \/ (StopSound(c, A) /\ frame[c] = "top"))
             => \A B \in AudioType \ {A} :
                   /\ IsPlaying(B)' = IsPlaying(B)
                   /\ sound_files'[B] = sound_files[B]]_vars

C14_Witness ==
    /\ IsPlaying(TICK)
    /\ IsPlaying(QUARTER_CHIME)
    /\ ~IsPlaying(SPEECH)
    /\ sound_files[SPEECH] # None
    /\ alast.op = "stop_sound" /\ alast.type = SPEECH /\ alast.stops = 1

(* C15: the volume set on every loaded sound of type T is get_volume(T)    *)
(* times get_master_volume(), and lies in [0.0, 1.0].                      *)
C15_EffectiveVolume ==
    \A T \in AudioType :
        sound_files[T] # None
        => /\ sound_files[T] = volume_settings[T] * master_volume
           /\ 0 <= sound_files[T]
           /\ sound_files[T] <= VolumeOne * VolumeOne

C15_Witness ==
    /\ volume_settings[TICK] = 5
    /\ master_volume = 5
    /\ sound_files[TICK] = 25
    /\ sound_files[SPEECH] = 45
    /\ alast.op = "set_master_volume" /\ alast.ret = "True"

(* C16: set_volume(T, v) with v in [0.0, 1.0] returns true and get_volume  *)
(* (T) is then v; with v outside it, set_volume and set_master_volume      *)
(* return false and change no type volume, not the master volume and no    *)
(* volume of a loaded sound.                                               *)
C16_SetVolume ==
    [][\A c \in Callers : \A v \in Volumes :
         /\ \A T \in AudioType :
               (alast'.type = T /\ SetVolume(c, T, v))
               => IF 0 <= v /\ v <= VolumeOne
                  THEN alast'.ret = "True" /\ volume_settings'[T] = v
                  ELSE /\ alast'.ret = "False"
                       /\ UNCHANGED <<volume_settings, master_volume, sound_files>>
         /\ (~(0 <= v /\ v <= VolumeOne) /\ SetMasterVolume(c, v))
               => /\ alast'.ret = "False"
                  /\ UNCHANGED <<volume_settings, master_volume, sound_files>>]_vars

C16_Witness ==
    /\ alast = Call("set_volume", SPEECH, "False")
    /\ volume_settings[SPEECH] = 5
    /\ sound_files[SPEECH] = 5 * VolumeOne

(* C17: load_sound_file(T, path) returns false when the path does not      *)
(* exist or its suffix is none of .wav, .ogg, .mp3 in any case, and then   *)
(* the loaded sounds are as before.                                        *)
C17_LoadRejected ==
    [][\A c \in Callers : \A T \in AudioType : \A path \in Paths :
         (/\ ~path.exists \/ path.suffix \in {".txt", ""}
          /\ alast'.type = T
          /\ LoadSoundFile(c, T, path))
         => /\ alast'.ret = "False"
            /\ sound_files' = sound_files]_vars

C17_Witness ==
    /\ alast = Call("load_sound_file", HOUR_CHIME, "False")
    /\ sound_files[HOUR_CHIME] # None
    /\ sound_files[TICK] = None

(* C18: on an initialized engine play_sound(T) returns false and starts    *)
(* nothing when no sound is loaded for T or T has no channel; otherwise it *)
(* stops the channel once if it is busy, starts the sound once, and T is   *)
(* playing.                                                                *)
C18_PlaySound ==
    [][\A c \in Callers : \A T \in AudioType :
         (initialized /\ alast'.type = T /\ PlaySound(c, T))
         => IF sound_files[T] = None \/ channels[T] = None
            THEN /\ alast'.ret = "False"
                 /\ alast'.starts = 0 /\ alast'.stops = 0
                 /\ busy' = busy
            ELSE /\ alast'.ret = "True"
                 /\ alast'.stops = (IF busy[channels[T]] THEN 1 ELSE 0)
                 /\ alast'.starts = 1
                 /\ IsPlaying(T)'
                 /\ \A n \in ChannelNumbers \ {channels[T]} : busy'[n] = busy[n]]_vars

C18_Witness ==
    /\ alast = [op |-> "play_sound", type |-> TICK, ret |-> "True",
                stops |-> 1, starts |-> 1]
    /\ IsPlaying(TICK)

(* C19: stop_all_sounds() on an initialized engine returns: its            *)
(* stop_sound() is never waiting for self._lock while the calling thread   *)
(* holds that lock.                                                        *)
C19_StopAllSoundsReturns ==
    \A c \in Callers :
        (frame[c] = "stop_all_sounds" /\ pc[c] = "stop_sound") => alock # c

(* C20: cleanup() on an initialized engine returns: its stop_sound() is    *)
(* never waiting for self._lock while the calling thread holds that lock.  *)
C20_CleanupReturns ==
    \A c \in Callers :
        (frame[c] = "cleanup" /\ pc[c] = "stop_sound") => alock # c

(* C21: an AudioManager whose mixer raised during construction is left not *)
(* initialized.                                                            *)
C21_FailedMixerNotInitialized == MixerFailed => ~initialized

(* C22: on an engine that is not initialized load_sound_file, play_sound,  *)
(* stop_sound, set_volume and set_master_volume return false and           *)
(* is_playing is false.                                                    *)
C22_NotInitializedReturnsFalse ==
    [][~initialized
         => /\ \A T \in AudioType : ~IsPlaying(T)
            /\ \A c \in Callers :
                 ((\/ \E T \in AudioType : \E path \in Paths : LoadSoundFile(c, T, path)
                   \/ \E T \in AudioType : PlaySound(c, T)
                   \/ \E T \in AudioType : StopSound(c, T)
                   \/ \E T \in AudioType : \E v \in Volumes : SetVolume(c, T, v)
                   \/ \E v \in Volumes : SetMasterVolume(c, v))
                  => alast'.ret = "False")]_vars

(* C23: on an initialized engine stop_sound(T) returns true when T is not  *)
(* playing, whether T has a channel or not, and T is not playing after     *)
(* stop_sound(T) has returned.                                             *)
C23_StopSoundSucceeds ==
    [][\A c \in Callers : \A T \in AudioType :
         (initialized /\ alast'.type = T /\ frame[c] = "top" /\ StopSound(c, T))
         => /\ ~IsPlaying(T) => alast'.ret = "True"
            /\ ~IsPlaying(T)']_vars

(* C24: with threads calling set_volume, set_master_volume and             *)
(* load_sound_file at the same time, at most one thread is inside a        *)
(* `with self._lock` block; the pair of volumes a thread composed is still *)
(* the stored pair when it applies the product; and once every call has    *)
(* returned, the volume applied to each loaded sound is its type's volume  *)
(* multiplied by the master volume.                                        *)
C24_VolumeComposition ==
    /\ \A t, u \in Threads :
          (threads[t].pc \in Critical /\ threads[u].pc \in Critical) => t = u
    /\ \A t \in Threads :
          threads[t].pc = "apply"
          => threads[t].effective =
                 EffectiveVolume(volume_settings[threads[t].type], master_volume)
    /\ (\A t \in Threads : threads[t].pc = "idle")
          => \A T \in AudioType :
                sound_files[T] # None
                => sound_files[T] = EffectiveVolume(volume_settings[T], master_volume)

C24_Witness ==
    /\ \A t \in Threads : threads[t].pc = "idle"
    /\ volume_settings[TICK] = 5
    /\ master_volume = 7
    /\ sound_files[TICK] = 35

(* C25: load_sound_pack(pack) returns a map whose keys are exactly the     *)
(* types of the slots tick_sound, hour_chime, quarter_chime and half_chime *)
(* that have a non-empty path in pack; a type is mapped to true when its   *)
(* path loads, and its sound is then the loaded one, and to false when it  *)
(* does not, and its sound is then the one it had, whatever the other      *)
(* slots do; every other type keeps its sound.                             *)
C25_LoadSoundPack ==
    [][\A c \in Callers :
         (fnOut'.op = "load_sound_pack" /\ LoadSoundPack(c, fnOut'.pack))
         => LET pack == fnOut'.pack
                results == fnOut'.results
                Slot(T) == CASE T = TICK -> "tick_sound"
                             [] T = HOUR_CHIME -> "hour_chime"
                             [] T = QUARTER_CHIME -> "quarter_chime"
                             [] T = HALF_CHIME -> "half_chime"
                             [] OTHER -> "none"
            IN  \A T \in AudioType :
                  IF Slot(T) \in DOMAIN pack /\ ~pack[Slot(T)].empty
                  THEN /\ T \in DOMAIN results
                       /\ results[T] =
                            (initialized /\ ~MixerFailed /\ pack[Slot(T)].path.loads)
                       /\ sound_files'[T] =
                            IF results[T]
                            THEN EffectiveVolume(volume_settings[T], master_volume)
                            ELSE sound_files[T]
                  ELSE /\ T \notin DOMAIN results
                       /\ sound_files'[T] = sound_files[T]]_vars

C25_Witness ==
    /\ fnOut.op = "load_sound_pack"
    /\ DOMAIN fnOut.pack = {"tick_sound", "half_chime"}
    /\ DOMAIN fnOut.results = {TICK, HALF_CHIME}
    /\ ~fnOut.results[TICK]
    /\ fnOut.results[HALF_CHIME]
    /\ sound_files[HALF_CHIME] # None
    /\ sound_files[TICK] = None

(* C26, as stated: get_volume(T) returns 1.0 for every type T that no      *)
(* set_volume has set, and get_master_volume() returns 1.0 until a         *)
(* set_master_volume succeeds; neither changes the engine.                 *)
C26_DefaultIsOne ==
    [][\A c \in Callers :
         /\ \A T \in AudioType :
              (fnOut'.op = "get_volume" /\ fnOut'.type = T /\ GetVolume(c, T))
              => /\ T \notin touched => fnOut'.value = VolumeOne
                 /\ UNCHANGED engineVars
         /\ (fnOut'.op = "get_master_volume" /\ GetMasterVolume(c))
              => /\ "master" \notin touched => fnOut'.value = VolumeOne
                 /\ UNCHANGED engineVars]_vars

(* C26, amended: until a set_volume(T, v) succeeds get_volume(T) returns   *)
(* the volume T is constructed with, 0.8 for the tick, 0.9 for speech and  *)
(* 1.0 for the three chimes; get_master_volume() returns 1.0 until a       *)
(* set_master_volume succeeds; neither changes the engine.                 *)
C26_ConstructedVolumes ==
    [][\A c \in Callers :
         /\ \A T \in AudioType :
              (fnOut'.op = "get_volume" /\ fnOut'.type = T /\ GetVolume(c, T))
              => /\ T \notin touched
                      => fnOut'.value = (CASE T = TICK -> 8
                                           [] T = SPEECH -> 9
                                           [] OTHER -> VolumeOne)
                 /\ UNCHANGED engineVars
         /\ (fnOut'.op = "get_master_volume" /\ GetMasterVolume(c))
              => /\ "master" \notin touched => fnOut'.value = VolumeOne
                 /\ UNCHANGED engineVars]_vars

C26_Witness ==
    /\ fnOut = [op |-> "get_volume", type |-> TICK, value |-> 8]
    /\ touched = {SPEECH, "master"}
    /\ master_volume = 5

(* C27: get_next_chime_time() returns None exactly when the scheduler is   *)
(* disabled or no interval is enabled, and it changes nothing of the       *)
(* scheduler.                                                              *)
C27_NextChimeTimeNone ==
    [][(fnOut'.op = "get_next_chime_time" /\ CallGetNextChimeTime)
         => /\ (fnOut'.next = None)
                 <=> (~enabled \/ \A i \in ChimeInterval : ~chime_intervals[i])
            /\ UNCHANGED <<clock, schedVars, callerVars, workerVars, chimeVars>>]_vars

C27_Witness ==
    /\ fnOut.op = "get_next_chime_time"
    /\ fnOut.next = None
    /\ enabled
    /\ \A i \in ChimeInterval : ~chime_intervals[i]

(* C28: the loop worker ends only when stop has been signalled: an         *)
(* exception in an iteration sends it into the cooldown wait, and a play   *)
(* request that fails leaves it in the loop.                               *)
C28_FaultKeepsWorker ==
    [][\A w \in Workers :
         /\ (wpc[w] # "dead" /\ wpc'[w] = "dead") => stop_event
         /\ (wpc[w] \in {"next", "now", "fire"} /\ LoopFault(w))
              => wpc'[w] = "wait" /\ wkind'[w] = "cooldown"
         /\ (wpc[w] \in {"play", "inplay"} /\ wpc'[w] # wpc[w])
              => wpc'[w] \in {"inplay", "play", "wait"}]_vars

C28_Witness ==
    \E w \in Workers :
        /\ wpc[w] = "wait"
        /\ wkind[w] = "cooldown"
        /\ ~stop_event
        /\ running

(* C29: when ChimeScheduler.cleanup() returns the scheduler is not running *)
(* and the callback registry holds None for every ChimeInterval.           *)
C29_CleanupKeepsEntries ==
    [][\A c \in Callers :
         (pc[c] = "clear" /\ ClearCallbacks(c))
         => /\ ~running'
            /\ \A i \in ChimeInterval :
                  i \in DOMAIN chime_callbacks' /\ ~chime_callbacks'[i]]_vars

C31_BackendsEquivalent ==
    (\A c \in Callers : pc[c] = "idle") =>
        /\ mock.ret = alast.ret
        /\ mock.master = master_volume
        /\ \A T \in AudioType :
              /\ mock.volumes[T] = VolumeSetting(T)
              /\ mock.playing[T] = IsPlaying(T)

(* C32: when the main file was corrupted after a successful                *)
(* save_preferences(), load_preferences() on a new manager returns the     *)
(* preferences saved last                                                  *)
C32_LoadReturnsLastSaved ==
    (/\ plast.op = "load_preferences"
     /\ plast.main = "corrupt"
     /\ plast.saved.set)
        => plast.value = plast.saved

(* C40: a set_preference(key, value) that returns False leaves the         *)
(* preferences in memory and the preferences file as they were             *)
C40_RejectedSetChangesNothing ==
    [][(/\ preferences.set
        /\ plast'.op = "set_preference"
        /\ plast'.ret = "False")
           => /\ preferences' = preferences
              /\ preferences_file' = preferences_file]_vars

(* a Sound that pygame.mixer.Sound fails to construct for an existing file *)
(* of a supported format                                                   *)
Undecodable(path) == path.exists /\ IsSupportedFormat(path) /\ ~path.loads

(* C33: when the mixer raises inside load_sound_file, play_sound or        *)
(* stop_sound, the call returns False to its caller, the loaded sounds are *)
(* as before, and the engine lock is free, so that the next operation is   *)
(* not blocked: no state has a caller inside a call or the lock held       *)
C33_BackendFaultReturnsFalse ==
    /\ [](alock = Free /\ \A c \in Callers : pc[c] = "idle")
    /\ [][(/\ alast'.ret = "False"
            /\ \E c \in Callers : \E T \in FaultTypes :
                  \/ \E path \in Paths : Undecodable(path) /\ LoadSoundFile(c, T, path)
                  \/ \E at \in ChannelCalls : PlaySoundError(c, T, at)
                  \/ \E at \in ChannelCalls : StopSoundError(c, T, at))
               => /\ sound_files' = sound_files
                  /\ alock' = Free
                  /\ \A c \in Callers : pc'[c] = "idle" /\ frame'[c] = "top"
                  /\ \E c \in Callers : \E T \in FaultTypes :
                        ENABLED PlaySound(c, T)]_vars

(* play_sound(TICK) raised in Channel.play after it had stopped the sound  *)
(* that was playing; the hour chime is still loaded and playing            *)
C33_Witness ==
    /\ alast = [op |-> "play_sound", type |-> TICK, ret |-> "False", stops |-> 1, starts |-> 0]
    /\ alock = Free
    /\ sound_files[TICK] # None
    /\ ~IsPlaying(TICK)
    /\ IsPlaying(HOUR_CHIME)

(* C34: at most one worker is inside _scheduler_loop at any moment *)
C34_AtMostOneWorker == Cardinality(WorkersAlive) <= 1

(* C35: when is_running() is true and no caller is inside a call of the    *)
(* scheduler, a loop worker is alive                                       *)
C35_RunningHasWorker ==
    (running /\ \A c \in Callers : pc[c] = "idle") => WorkersAlive # {}

(* C36: while the scheduler is disabled - set_enabled(False) has returned, *)
(* set_enabled(True) has not been called, no call is in progress - the     *)
(* loop worker makes no play request                                       *)
C36_NoPlayWhileDisabled ==
    [][(/\ ~enabled
        /\ \A c \in Callers : pc[c] = "idle" /\ cop[c] = "set_enabled")
           => ~(wpc' # wpc /\ \E w \in Workers : LoopPlay(w))]_vars

(* C37: the instant get_next_chime_time() returns is one at which          *)
(* _check_and_play_chimes plays a chime under the same interval settings   *)
C37_NextChimeTimeFires ==
    (fnOut.op = "get_next_chime_time" /\ fnOut.next # None)
    => ChimesToPlay(MinuteOf(fnOut.next), chime_intervals) # <<>>

(* C38: a waiting loop worker wakes within PollSeconds, and the            *)
(* next-chime computation that follows uses the interval settings as they  *)
(* are then, whatever set_chime_interval_enabled changed during the wait   *)
C38_PollingCeiling ==
    /\ [](\A w \in Workers :
            wpc[w] = "wait" => wuntil[w] <= clock + PollSeconds)
    /\ [][\A w \in Workers :
            (wpc[w] = "next" /\ wpc'[w] # "next")
            => IF GetNextChimeTime(clock, enabled, chime_intervals) = None
               THEN wpc'[w] = "wait" /\ wkind'[w] = "poll"
               ELSE /\ wpc'[w] = "now"
                    /\ wnext'[w] = GetNextChimeTime(clock, enabled, chime_intervals)]_vars

(* a worker whose wait for a chime ended at the ceiling, off a boundary,   *)
(* has computed the next chime from intervals that were changed by         *)
(* set_chime_interval_enabled: only the half-hour chime is left            *)
C38_Witness ==
    \E w \in Workers : \E c \in Callers :
        /\ wpc[w] = "now"
        /\ ~stop_event
        /\ SecondOf(clock) # 0
        /\ clock >= At(10, 14, 58) + PollSeconds
        /\ cop[c] = "set_chime_interval_enabled"
        /\ EnabledIntervals = {HALF_HOUR}
        /\ wnext[w] = At(10, 30, 0)

====
